---- MODULE Spec2Model ----
(***************************************************************************)
(* PDB-Engine: allow-list registry, injection-defence validator, command   *)
(* builder and execution backends.  Strings are sequences of one-character *)
(* strings, so that prefix tests, replacement, splitting, case folding and *)
(* the regular-expression scans act on characters as the Python code does. *)
(* Paths follow pathlib's POSIX flavour.                                   *)
(***************************************************************************)
EXTENDS FiniteSets, Integers, Sequences, TLC

VARIABLES
    pc,                 \* position of the operation under way
    command_args,       \* the argument vector (List[str])
    verdict,            \* outcome of validate_command_structure: "True" or the SecurityError raised
    filename,           \* argument of validate_filename
    sanitized,          \* outcome of validate_filename: the exception raised, the value returned
    USE_DOCKER,         \* settings.USE_DOCKER, fixed for the deployment
    command,            \* the command name of a request
    arguments,          \* the argument mapping of a request: <<key, value>> pairs in dict order
    flags,              \* the flag list of a request
    working_directory,  \* the working directory handed to the executor
    raised,             \* the exception that left the operation, "none" when it returned
    result,             \* <<>> or <<PDBEngineExecutionResult>>
    route,              \* the endpoint a request came in on
    input_filename,     \* the name of the uploaded file, <<>> when there is none
    options,            \* the ppint and interface_only form fields
    validated,          \* the vectors validate_command_structure has accepted
    executed,           \* <<>> or <<the vector handed to PDBEngineExecutor.execute>>
    outcome,            \* what the system does once the operation reaches it (subprocess.run, unlink, rmtree)
    preflight,          \* the last answer of check_docker_available, "never" before any
    jobs,               \* the requests of a server process: position and workspace of each
    running,            \* the external programs (children, containers) alive
    workspaces,         \* the workspace directories that exist
    issued,             \* the identifiers uuid4 has returned
    background_tasks,   \* the paths handed to background_tasks.add_task(cleanup_path, ...)
    zip_path,           \* <<>> or the path create_results_zip returned
    files,              \* the files and directories on disk: [path, kind]
    detail,             \* <<>> or <<the text surfaced to the caller>>
    original_path,      \* argument of validate_and_clean
    processed,          \* outcome of validate_and_clean: the exception raised, the path returned
    docker_command,     \* outcome of _build_docker_command: the exception raised, the list
    converted_command   \* outcome of _convert_paths_to_container: the exception raised, the list

validatorVars == <<command_args, verdict>>
filenameVars == <<filename, sanitized>>
requestVars == <<command, arguments, flags>>
executorVars == <<working_directory, raised, result, outcome>>
routeVars == <<route, input_filename, options>>
historyVars == <<validated, executed, preflight>>
poolVars == <<jobs, running, workspaces, issued>>
cleanupVars == <<background_tasks, zip_path, files>>
cleanerVars == <<original_path, processed>>
containerVars == <<docker_command, converted_command>>

vars == <<pc, validatorVars, filenameVars, USE_DOCKER, requestVars, executorVars,
          routeVars, historyVars, poolVars, cleanupVars, detail, cleanerVars,
          containerVars>>

----------------------------------------------------------------------------
(* Characters and elementary string operations (Python str)                *)

UpperSeq == <<"A","B","C","D","E","F","G","H","I","J","K","L","M",
              "N","O","P","Q","R","S","T","U","V","W","X","Y","Z">>
LowerSeq == <<"a","b","c","d","e","f","g","h","i","j","k","l","m",
              "n","o","p","q","r","s","t","u","v","w","x","y","z">>
Digits == {"0","1","2","3","4","5","6","7","8","9"}
Letters == {UpperSeq[i] : i \in 1..26} \cup {LowerSeq[i] : i \in 1..26}

\* the character \x00, which TLA+ cannot write as a one-character string
NUL == "\\x00"

\* the grave accent, which a TLA+ string cannot hold
Backtick == "\\x60"

\* \s of the re module (ASCII)
Whitespace == {" ", "\t", "\n", "\r", "\f"}

\* \w of the re module (ASCII)
WordChars == Letters \cup Digits \cup {"_"}

\* the lower-case letter of each upper-case letter
LowerOf ==
    [c \in {UpperSeq[i] : i \in 1..26} |-> LowerSeq[CHOOSE i \in 1..26 : UpperSeq[i] = c]]

\* str.lower on one character
LowerChar(c) == IF c \in DOMAIN LowerOf THEN LowerOf[c] ELSE c

\* str.lower
Lower(s) == [i \in 1..Len(s) |-> LowerChar(s[i])]

\* sub occurs in s at index i
OccursAt(s, sub, i) ==
    /\ i >= 1
    /\ i + Len(sub) - 1 <= Len(s)
    /\ \A k \in 1..Len(sub) : s[i + k - 1] = sub[k]

\* the operator `sub in s`
Contains(s, sub) == \E i \in 1..Len(s) : OccursAt(s, sub, i)

\* str.startswith
StartsWith(s, prefix) == OccursAt(s, prefix, 1)

\* str.endswith
EndsWith(s, suffix) ==
    /\ Len(suffix) <= Len(s)
    /\ OccursAt(s, suffix, Len(s) - Len(suffix) + 1)

\* s[from:] as a sequence indexed from 1
Drop(s, n) == IF n >= Len(s) THEN <<>> ELSE SubSeq(s, n + 1, Len(s))

\* s[:n]
Take(s, n) == IF n >= Len(s) THEN s ELSE SubSeq(s, 1, n)

\* str.find, 1-based, 0 when absent
Find(s, sub) ==
    IF Contains(s, sub)
    THEN CHOOSE i \in 1..Len(s) :
            OccursAt(s, sub, i) /\ \A j \in 1..(i - 1) : ~OccursAt(s, sub, j)
    ELSE 0

\* str.replace(old, new): every non-overlapping occurrence, left to right
RECURSIVE Replace(_, _, _)
Replace(s, old, new) ==
    LET i == Find(s, old)
    IN  IF i = 0
        THEN s
        ELSE Take(s, i - 1) \o new \o Replace(Drop(s, i + Len(old) - 1), old, new)

\* str.split(sep, 1) on a string that contains sep: <<head, rest>>
Split1(s, sep) ==
    LET i == Find(s, sep)
    IN  <<Take(s, i - 1), Drop(s, i + Len(sep) - 1)>>

\* str.rsplit(sep, 1) on a string that contains the character sep
RSplit1(s, sep) ==
    LET i == CHOOSE k \in 1..Len(s) :
                s[k] = sep /\ \A j \in (k + 1)..Len(s) : s[j] # sep
    IN  <<Take(s, i - 1), Drop(s, i)>>

----------------------------------------------------------------------------
(* Command Registry (core/valid_commands.py)                               *)

CMD_BASE == <<"-","-","c","o","m","m","a","n","d","=">>

HELP == <<"-","-","h","e","l","p">>

VALID_COMMANDS ==
    { <<"C","o","m","p","u","t","e","B","i","n","d","i","n","g">>,
      <<"C","o","m","p","u","t","e","E","v","o","l","u","t","i","o","n","S","c","o","r","e">>,
      <<"C","o","m","p","u","t","e","R","e","s","E","n","e","r","g","y">>,
      <<"C","o","m","p","u","t","e","R","o","t","E","n","e","r","g","y">>,
      <<"C","o","m","p","u","t","e","S","t","a","b","i","l","i","t","y">>,
      <<"C","o","m","p","u","t","e","R","e","s","P","a","i","r","E","n","e","r","g","y">>,
      <<"P","r","o","t","e","i","n","D","e","s","i","g","n">>,
      <<"A","d","d","P","o","l","a","r","H","y","d","r","o","g","e","n">>,
      <<"B","u","i","l","d","M","u","t","a","n","t">>,
      <<"C","a","l","c","P","h","i","P","s","i">>,
      <<"C","a","l","c","R","e","s","M","i","n","R","M","S","D">>,
      <<"C","h","e","c","k","C","l","a","s","h","0">>,
      <<"C","h","e","c","k","C","l","a","s","h","1">>,
      <<"C","h","e","c","k","C","l","a","s","h","2">>,
      <<"C","h","e","c","k","R","e","s","I","n","R","o","t","L","i","b">>,
      <<"C","o","m","p","a","r","e","P","r","o","t","S","i","d","e","C","h","a","i","n">>,
      <<"F","i","n","d","C","o","r","e","R","e","s">>,
      <<"F","i","n","d","I","n","t","e","r","m","e","d","i","a","t","e","R","e","s">>,
      <<"F","i","n","d","I","n","t","e","r","f","a","c","e","R","e","s">>,
      <<"F","i","n","d","S","u","r","f","a","c","e","R","e","s">>,
      <<"M","i","n","i","m","i","z","e">>,
      <<"O","p","t","i","m","i","z","e","H","y","d","r","o","g","e","n">>,
      <<"R","e","p","a","i","r","S","t","r","u","c","t","u","r","e">>,
      <<"S","h","o","w","R","e","s","C","o","m","p","o","s","i","t","i","o","n">>,
      <<"P","r","e","d","P","h","i","P","s","i">>,
      <<"P","r","e","d","S","S">>,
      <<"P","r","e","d","S","A">>,
      <<"C","a","l","c","R","e","s","B","f","a","c","t","o","r">>,
      <<"O","p","t","i","m","i","z","e","W","e","i","g","h","t">>,
      <<"M","a","k","e","L","i","g","P","a","r","a","m","A","n","d","T","o","p","o">>,
      <<"M","a","k","e","L","i","g","P","o","s","e","s">>,
      <<"A","n","a","l","y","z","e","L","i","g","P","o","s","e","s">>,
      <<"S","c","r","e","e","n","L","i","g","P","o","s","e","s">>,
      <<"W","r","i","t","e","F","i","r","s","t","L","i","g","C","o","n","f","A","s","M","o","l","2">>,
      <<"S","e","l","e","c","t","R","e","s","W","i","t","h","i","n">> }

VALID_ARGUMENTS ==
    { <<"p","d","b">>,
      <<"p","r","e","f","i","x">>,
      <<"w","b","i","n","d">>,
      <<"s","e","q">>,
      <<"r","e","s","f","i","l","e">>,
      <<"r","e","s","i">>,
      <<"r","e","s","i","_","p","a","i","r">>,
      <<"e","x","c","l","_","r","e","s","i">>,
      <<"r","o","t","l","i","b">>,
      <<"d","e","s","i","g","n","_","c","h","a","i","n","s">>,
      <<"n","t","r","a","j">>,
      <<"m","u","t","a","n","t","_","f","i","l","e">>,
      <<"p","d","b","2">>,
      <<"n","c","u","t","_","c","b","_","c","o","r","e">>,
      <<"p","p","i","_","s","h","e","l","l","1">>,
      <<"p","p","i","_","s","h","e","l","l","2">>,
      <<"n","c","u","t","_","c","b","_","s","u","r","f">>,
      <<"w","p","r","o","f">>,
      <<"l","i","g","_","p","a","r","a","m">>,
      <<"l","i","g","_","t","o","p","o">>,
      <<"i","n","i","t","_","3","a","t","o","m","s">>,
      <<"l","i","g","_","p","l","a","c","i","n","g">>,
      <<"r","e","a","d","_","l","i","g","_","p","o","s","e","s">>,
      <<"s","c","r","n","_","b","y","_","o","r","i","e","n">>,
      <<"s","c","r","n","_","b","y","_","v","d","w","_","p","c","t","l">>,
      <<"s","c","r","n","_","b","y","_","r","m","s","d">>,
      <<"m","o","l","2">>,
      <<"w","i","t","h","i","n","_","r","e","s","i","d","u","e","s">>,
      <<"w","i","t","h","i","n","_","r","a","n","g","e">> }

VALID_FLAGS ==
    { <<"p","h","y","s","i","c","s">>,
      <<"m","o","n","o","m","e","r">>,
      <<"e","v","o","l","u","t","i","o","n">>,
      <<"e","v","o","_","a","l","l","_","t","e","r","m","s">>,
      <<"s","e","e","d","_","f","r","o","m","_","n","a","t","_","s","e","q">>,
      <<"p","p","i","n","t">>,
      <<"i","n","t","e","r","f","a","c","e","_","o","n","l","y">>,
      <<"e","x","c","l","_","c","y","s","_","r","o","t","s">>,
      <<"n","o","_","h","y","d","r","o","g","e","n">>,
      <<"w","i","l","d","t","y","p","e","_","o","n","l","y">>,
      <<"d","e","b","u","g">>,
      <<"k","e","e","p","_","w","a","t","e","r">>,
      <<"d","r","y","_","r","u","n">>,
      <<"e","n","z","y","m","e">>,
      <<"p","r","o","t","l","i","g">> }

is_valid_command(name) == name \in VALID_COMMANDS

is_valid_argument(arg) == arg \in VALID_ARGUMENTS

is_valid_flag(flag) == flag \in VALID_FLAGS

format_argument(argument, value) == <<"-","-">> \o argument \o <<"=">> \o value

format_flag(flag) == <<"-","-">> \o flag

get_command_base(name) == CMD_BASE \o name

----------------------------------------------------------------------------
(* pathlib.PurePosixPath                                                   *)

\* the root of a path: "//" for exactly two leading slashes, "/" for one or
\* for three and more, "" for a relative path
PathRoot(p) ==
    IF StartsWith(p, <<"/","/">>) /\ ~StartsWith(p, <<"/","/","/">>) THEN <<"/","/">>
    ELSE IF StartsWith(p, <<"/">>) THEN <<"/">>
    ELSE <<>>

\* the components of a path: the text between slashes, empty and "." dropped
PathParts(p) ==
    LET B == {i \in 1..Len(p) : p[i] = "/"} \cup {0, Len(p) + 1}
        Nxt(a) == CHOOSE b \in B : b > a /\ \A c \in B : c > a => b <= c
        Part(a) == IF Nxt(a) = a + 1 THEN <<>> ELSE SubSeq(p, a + 1, Nxt(a) - 1)
        Starts == {a \in B : a <= Len(p) /\ Part(a) \notin {<<>>, <<".">>}}
        Nth(k) == CHOOSE a \in Starts : Cardinality({c \in Starts : c < a}) = k - 1
    IN  [k \in 1..Cardinality(Starts) |-> Part(Nth(k))]

\* "/".join(parts)
RECURSIVE JoinSlash(_)
JoinSlash(parts) ==
    IF parts = <<>> THEN <<>>
    ELSE IF Len(parts) = 1 THEN parts[1]
    ELSE parts[1] \o <<"/">> \o JoinSlash(Tail(parts))

\* str(Path(p)), also Path(p).as_posix()
PathStr(p) ==
    LET body == PathRoot(p) \o JoinSlash(PathParts(p))
    IN  IF body = <<>> THEN <<".">> ELSE body

\* Path(p).is_absolute()
is_absolute(p) == PathRoot(p) # <<>>

----------------------------------------------------------------------------
(* Security Validator (core/security.py)                                   *)

ShellMeta == {";", "&", "|", Backtick, "$", "(", ")", "{", "}", "[", "]", "<", ">"}

NumPatterns == 14

\* literal followed by at least one whitespace character: lit\s+
LitThenSpace(t, lit) ==
    \E i \in 1..Len(t) :
        /\ OccursAt(t, lit, i)
        /\ i + Len(lit) <= Len(t)
        /\ t[i + Len(lit)] \in Whitespace

\* re.search(DANGEROUS_PATTERNS[k-1], arg, re.IGNORECASE): the patterns are
\* lower-case literals and character classes, so the search is made on the
\* lower-cased text
re_search(k, arg) ==
    LET t == Lower(arg)
        n == Len(t)
        \* text[from..to-1] is whitespace only
        Blank(from, to) == \A x \in from..(to - 1) : t[x] \in Whitespace
    IN  CASE k = 1  -> \E i \in 1..n : t[i] \in ShellMeta
          [] k = 2  -> Contains(t, <<".",".">>)
          [] k = 3  -> Contains(t, <<"/","b","i","n","/">>)
          [] k = 4  -> Contains(t, <<"/","u","s","r","/">>)
          [] k = 5  -> Contains(t, <<"s","u","d","o">>)
          [] k = 6  -> Contains(t, <<"c","h","m","o","d">>)
          [] k = 7  -> \E i \in 1..n :
                          /\ OccursAt(t, <<"r","m">>, i)
                          /\ \E j \in (i + 3)..n :
                                Blank(i + 2, j) /\ OccursAt(t, <<"-","r","f">>, j)
          [] k = 8  -> \E i \in 1..n :
                          /\ t[i] = ">"
                          /\ \E j \in (i + 1)..n : Blank(i + 1, j) /\ t[j] = "/"
          [] k = 9  -> \E i \in 1..n :
                          /\ t[i] = "|"
                          /\ \E j \in (i + 1)..n : Blank(i + 1, j) /\ t[j] \in WordChars
          [] k = 10 -> Contains(t, <<"&","&">>)
          [] k = 11 -> Contains(t, <<"|","|">>)
          [] k = 12 -> LitThenSpace(t, <<"n","c">>)
          [] k = 13 -> LitThenSpace(t, <<"w","g","e","t">>)
          [] k = 14 -> LitThenSpace(t, <<"c","u","r","l">>)

\* the argument matches one of DANGEROUS_PATTERNS
DANGEROUS_PATTERNS(arg) == \E k \in 1..NumPatterns : re_search(k, arg)

ErrDangerous == "Dangerous pattern detected in argument"

\* _validate_argument_safety with the shell-metacharacter class left out
validate_argument_safety_no_metachar(arg) ==
    IF \E k \in 2..NumPatterns : re_search(k, arg) THEN ErrDangerous ELSE "ok"

\* _validate_argument_safety: "ok" or the SecurityError raised
validate_argument_safety(arg) ==
    IF DANGEROUS_PATTERNS(arg) THEN ErrDangerous ELSE "ok"

MaxPdbPathLen == 1000

ErrTraversal == "Directory traversal detected in PDB path"
ErrExtension == "Invalid file extension, only .pdb files allowed"
ErrTooLong == "PDB path too long"
ErrNullByte == "Null byte detected in PDB path"

DotPdb == <<".","p","d","b">>

\* _validate_pdb_path comparing the extension case-sensitively
validate_pdb_path_case_sensitive(pdb_path) ==
    IF Contains(PathStr(pdb_path), <<".",".">>) THEN ErrTraversal
    ELSE IF ~EndsWith(pdb_path, DotPdb) THEN ErrExtension
    ELSE IF Len(pdb_path) > MaxPdbPathLen THEN ErrTooLong
    ELSE IF Contains(pdb_path, <<NUL>>) THEN ErrNullByte
    ELSE "ok"

\* _validate_pdb_path without the length check
validate_pdb_path_no_length(pdb_path) ==
    IF Contains(PathStr(pdb_path), <<".",".">>) THEN ErrTraversal
    ELSE IF ~EndsWith(Lower(pdb_path), DotPdb) THEN ErrExtension
    ELSE IF Contains(pdb_path, <<NUL>>) THEN ErrNullByte
    ELSE "ok"

\* _validate_pdb_path: "ok" or the SecurityError raised
validate_pdb_path(pdb_path) ==
    IF Contains(PathStr(pdb_path), <<".",".">>) THEN ErrTraversal
    ELSE IF ~EndsWith(Lower(pdb_path), DotPdb) THEN ErrExtension
    ELSE IF Len(pdb_path) > MaxPdbPathLen THEN ErrTooLong
    ELSE IF Contains(pdb_path, <<NUL>>) THEN ErrNullByte
    ELSE "ok"

ErrUnknownArgument == "Unknown argument"
ErrUnknownFlag == "Unknown flag"
ErrMalformed == "Unrecognized argument format"

\* the body of the loop of _validate_argument_structure for one argument
validate_one_argument(arg) ==
    IF Contains(arg, <<"=">>)
    THEN LET kv == Split1(arg, <<"=">>)
             key == Replace(kv[1], <<"-","-">>, <<>>)
             value == kv[2]
         IN  IF ~is_valid_argument(key) THEN ErrUnknownArgument
             ELSE IF key = <<"p","d","b">> /\ value # <<>> THEN validate_pdb_path(value)
             ELSE "ok"
    ELSE IF StartsWith(arg, <<"-","-">>)
    THEN LET flag == Replace(arg, <<"-","-">>, <<>>)
         IN  IF ~is_valid_flag(flag) THEN ErrUnknownFlag ELSE "ok"
    ELSE ErrMalformed

\* _validate_argument_structure: "ok" or the first SecurityError raised
RECURSIVE validate_argument_structure(_)
validate_argument_structure(args) ==
    IF args = <<>> THEN "ok"
    ELSE LET r == validate_one_argument(Head(args))
         IN  IF r # "ok" THEN r ELSE validate_argument_structure(Tail(args))

ErrEmpty == "Empty command arguments"
ErrFirstArg == "First argument must be --command=CommandName"
ErrInvalidCommand == "Invalid command"

\* validate_command_structure checking the structure before the patterns
validate_command_structure_structure_first(args) ==
    IF args = <<>> THEN ErrEmpty
    ELSE IF ~StartsWith(args[1], CMD_BASE) THEN ErrFirstArg
    ELSE IF ~is_valid_command(Replace(args[1], CMD_BASE, <<>>)) THEN ErrInvalidCommand
    ELSE IF validate_argument_structure(Tail(args)) # "ok"
    THEN validate_argument_structure(Tail(args))
    ELSE IF \E i \in 1..Len(args) : validate_argument_safety(args[i]) # "ok" THEN ErrDangerous
    ELSE "True"

\* validate_command_structure: "True" or the SecurityError raised
validate_command_structure(args) ==
    IF args = <<>> THEN ErrEmpty
    ELSE IF ~StartsWith(args[1], CMD_BASE) THEN ErrFirstArg
    ELSE IF ~is_valid_command(Replace(args[1], CMD_BASE, <<>>)) THEN ErrInvalidCommand
    ELSE IF \E i \in 1..Len(args) : validate_argument_safety(args[i]) # "ok" THEN ErrDangerous
    ELSE LET r == validate_argument_structure(Tail(args))
         IN  IF r = "ok" THEN "True" ELSE r

----------------------------------------------------------------------------
(* Inputs of the validator: element-0 candidates, argument tokens          *)

sel_ProteinDesign == <<"-","-","c","o","m","m","a","n","d","=","P","r","o","t","e","i","n","D","e","s","i","g","n">>
sel_Bogus == <<"-","-","c","o","m","m","a","n","d","=","B","o","g","u","s">>
sel_Nested == <<"-","-","c","o","m","m","a","n","d","=","P","r","o","t","e","i","n","-","-","c","o","m","m","a","n","d","=","D","e","s","i","g","n">>
sel_Bare == <<"P","r","o","t","e","i","n","D","e","s","i","g","n">>
sel_Danger == <<"-","-","c","o","m","m","a","n","d","=","M","i","n","i","m","i","z","e",";","l","s">>
sel_Binary == <<"/","u","s","r","/","l","o","c","a","l","/","b","i","n","/","P","D","B","E","n","g","i","n","e">>

val_lower == <<"a",".","p","d","b">>
val_upper == <<"A",".","P","D","B">>
val_txt == <<"a",".","t","x","t">>
val_empty == <<>>
val_nul == <<"a","\\x00",".","p","d","b">>
val_dotdot == <<".",".","/","a",".","p","d","b">>
val_usr == <<"/","u","s","r","/","a",".","p","d","b">>
val_dots == <<".","/","a","/",".","/","b",".","p","d","b">>

arg_seq == <<"-","-","s","e","q","=","A","C","D">>
arg_seq_semicolon == <<"-","-","s","e","q","=","x",";","y">>
arg_seq_rm == <<"-","-","s","e","q","=","r","m"," "," ","-","r","f">>
arg_seq_sudo == <<"-","-","s","e","q","=","S","U","D","O">>
arg_seq_eq == <<"-","-","s","e","q","=","a","=","b">>
arg_bogus == <<"-","-","b","o","g","u","s","=","1">>
flag_ppint == <<"-","-","p","p","i","n","t">>
flag_bogus == <<"-","-","b","o","g","u","s">>
bare_ppint == <<"p","p","i","n","t">>
bare_pdb == <<"p","d","b","=","a",".","p","d","b">>
arg_p_db == <<"-","-","p","-","-","d","b","=","a",".","t","x","t">>
flag_dashes == <<"-","-","-","-","p","p","i","n","t">>

\* the number of elements after element 0 in the enumerated vectors
MaxArgs == 2

\* n copies of the character c
Rep(c, n) == [i \in 1..n |-> c]

\* a path of exactly n characters ending in .pdb
LongPdb(n) == Rep("a", n - 4) \o DotPdb

Selectors == {sel_ProteinDesign, sel_Bogus, sel_Nested, sel_Bare, sel_Danger, sel_Binary}

PdbValues == {val_lower, val_upper, val_txt, val_empty, val_nul, val_dotdot, val_usr, val_dots}

ArgTokens ==
    {format_argument(<<"p","d","b">>, v) : v \in PdbValues}
    \cup {arg_seq, arg_seq_semicolon, arg_seq_rm, arg_seq_sudo, arg_seq_eq, arg_bogus,
          flag_ppint, flag_bogus, bare_ppint, bare_pdb, arg_p_db, flag_dashes}

\* 'pdb' arguments whose value is at, and one past, the length limit
LongTokens ==
    {format_argument(<<"p","d","b">>, LongPdb(n)) : n \in {MaxPdbPathLen, MaxPdbPathLen + 1}}

BoundedSeq(S, n) == UNION {[1..k -> S] : k \in 0..n}

VectorInputs ==
    {<<>>}
    \cup {<<h>> \o rest : h \in Selectors \cup {arg_seq, flag_ppint},
                           rest \in BoundedSeq(ArgTokens \cup {sel_ProteinDesign}, MaxArgs)}
    \cup {<<h, t>> : h \in {sel_ProteinDesign, sel_Bogus}, t \in LongTokens}
    \cup {<<sel_ProteinDesign, t, u>> : t \in LongTokens, u \in {arg_seq_semicolon, flag_bogus}}

----------------------------------------------------------------------------
(* The validator applied to a candidate vector                             *)

\* the values of the variables an operation does not use
NoReturn == [raised |-> "none", value |-> <<>>]

IdleFilename == filename = <<>> /\ sanitized = NoReturn

IdleRequest == command = <<>> /\ arguments = <<>> /\ flags = <<>>

NoOutcome == [kind |-> "none"]

IdleExecutor ==
    working_directory = <<>> /\ raised = "none" /\ result = <<>> /\ outcome = NoOutcome

NoOptions == [ppint |-> FALSE, interface_only |-> FALSE]

IdleRoute == route = "none" /\ input_filename = <<>> /\ options = NoOptions

IdleHistory == validated = {} /\ executed = <<>> /\ preflight = "never"

IdlePool == jobs = <<>> /\ running = {} /\ workspaces = {} /\ issued = {}

IdleCleanup == background_tasks = <<>> /\ zip_path = <<>> /\ files = {}

IdleCleaner == original_path = <<>> /\ processed = NoReturn

IdleContainer == docker_command = NoReturn /\ converted_command = NoReturn

IdleTail == IdleCleanup /\ detail = <<>> /\ IdleCleaner /\ IdleContainer

InitValidator ==
    /\ pc = "validate"
    /\ command_args \in VectorInputs
    /\ verdict = "none"
    /\ USE_DOCKER = TRUE
    /\ IdleFilename /\ IdleRequest /\ IdleExecutor /\ IdleRoute /\ IdleHistory /\ IdlePool
    /\ IdleTail

\* CommandSecurityValidator.validate_command_structure(command_args)
Validate ==
    /\ pc = "validate"
    /\ verdict' = validate_command_structure(command_args)
    /\ pc' = "done"
    /\ validated' = IF verdict' = "True" THEN validated \cup {command_args} ELSE validated
    /\ UNCHANGED <<cleanupVars, detail, cleanerVars, containerVars, poolVars,
                   command_args, filenameVars, USE_DOCKER, requestVars, executorVars,
                   routeVars, executed, preflight>>

NextValidator == Validate

SpecValidator == InitValidator /\ [][NextValidator]_vars

----------------------------------------------------------------------------
(* validate_filename (core/security.py)                                    *)

ErrEmptyFilename == "Empty filename"

MaxFilenameLen == 100

KeptNameLen == 95

\* the characters re.sub(r'[^a-zA-Z0-9._-]', '_', ...) leaves alone
SafeChars == Letters \cup Digits \cup {".", "_", "-"}

\* re.sub(r'[^a-zA-Z0-9._-]', '_', filename)
re_sub_unsafe(s) == [i \in 1..Len(s) |-> IF s[i] \in SafeChars THEN s[i] ELSE "_"]

\* name, ext = sanitized.rsplit('.', 1); name[:95] + '.' + ext
\* (the unpacking raises ValueError when there is no '.' to split on)
truncate_name(s) ==
    IF ~Contains(s, <<".">>)
    THEN [raised |-> "ValueError", value |-> <<>>]
    ELSE LET parts == RSplit1(s, ".")
         IN  [raised |-> "none", value |-> Take(parts[1], KeptNameLen) \o <<".">> \o parts[2]]

\* validate_filename without the step that appends the extension
validate_filename_no_extension(fn) ==
    IF fn = <<>> THEN [raised |-> ErrEmptyFilename, value |-> <<>>]
    ELSE IF validate_argument_safety(fn) # "ok" THEN [raised |-> ErrDangerous, value |-> <<>>]
    ELSE LET replaced == re_sub_unsafe(fn)
         IN  IF Len(replaced) > MaxFilenameLen
             THEN truncate_name(replaced)
             ELSE [raised |-> "none", value |-> replaced]

\* validate_filename: the SecurityError raised, or the sanitized name returned
validate_filename(fn) ==
    IF fn = <<>> THEN [raised |-> ErrEmptyFilename, value |-> <<>>]
    ELSE IF validate_argument_safety(fn) # "ok" THEN [raised |-> ErrDangerous, value |-> <<>>]
    ELSE LET replaced == re_sub_unsafe(fn)
             with_ext == IF ~EndsWith(Lower(replaced), DotPdb)
                         THEN replaced \o DotPdb
                         ELSE replaced
         IN  IF Len(with_ext) > MaxFilenameLen
             THEN truncate_name(with_ext)
             ELSE [raised |-> "none", value |-> with_ext]

\* the length of the short file names enumerated character by character
MaxNameLen == 3

NameChars == {"a", ".", "/", ";", " "}

NameSuffixes == {<<>>, DotPdb, <<".","P","D","B">>, <<"p","d","b">>, <<".","t","x","t">>}

\* names around the truncation limit: a run of letters, a middle, a suffix
LongNames ==
    {Rep("a", n) \o mid \o suf :
        n \in (KeptNameLen - 3)..(KeptNameLen + 2),
        mid \in {<<>>, <<".">>, <<" ">>, <<".","b","b","b","b">>},
        suf \in NameSuffixes}

FilenameInputs ==
    {pre \o suf : pre \in BoundedSeq(NameChars, MaxNameLen), suf \in NameSuffixes}
    \cup LongNames

InitFilename ==
    /\ pc = "validate_filename"
    /\ filename \in FilenameInputs
    /\ sanitized = NoReturn
    /\ command_args = <<>> /\ verdict = "none"
    /\ USE_DOCKER = TRUE
    /\ IdleRequest /\ IdleExecutor /\ IdleRoute /\ IdleHistory /\ IdlePool
    /\ IdleTail

\* CommandSecurityValidator.validate_filename(filename)
ValidateFilename ==
    /\ pc = "validate_filename"
    /\ sanitized' = validate_filename(filename)
    /\ pc' = "done"
    /\ UNCHANGED <<cleanupVars, detail, cleanerVars, containerVars, poolVars,
                   filename, validatorVars, USE_DOCKER, requestVars, executorVars,
                   routeVars, historyVars>>

NextFilename == ValidateFilename

SpecFilename == InitFilename /\ [][NextFilename]_vars

----------------------------------------------------------------------------
(* Command Builder (core/valid_commands.py)                                *)

\* str(settings.PDBENGINE_BINARY_PATH): the resolved path of the local binary
PDBENGINE_BINARY_PATH == <<"/","o","p","t","/","e","n","g","i","n","e">>

\* the loop over arguments.items(): one token per entry whose key is a
\* Registry key and whose value is truthy
argument_tokens(mapping) ==
    LET Kept(pair) == is_valid_argument(pair[1]) /\ pair[2] # <<>>
        kept == SelectSeq(mapping, Kept)
    IN  [i \in 1..Len(kept) |-> format_argument(kept[i][1], kept[i][2])]

\* the loop over flags without the Registry test
flag_tokens_unfiltered(flag_list) ==
    [i \in 1..Len(flag_list) |-> format_flag(flag_list[i])]

\* the loop over flags: one token per Registry flag
flag_tokens(flag_list) ==
    LET kept == SelectSeq(flag_list, is_valid_flag)
    IN  [i \in 1..Len(kept) |-> format_flag(kept[i])]

\* build_command_from_dict putting the binary path first in either mode
build_command_from_dict_binary_first(name, mapping, flag_list) ==
    <<PDBENGINE_BINARY_PATH, get_command_base(name)>>
    \o argument_tokens(mapping)
    \o flag_tokens(flag_list)

\* build_command_from_dict(command, arguments, flags)
build_command_from_dict(name, mapping, flag_list) ==
    (IF USE_DOCKER
     THEN <<get_command_base(name)>>
     ELSE <<PDBENGINE_BINARY_PATH, get_command_base(name)>>)
    \o argument_tokens(mapping)
    \o flag_tokens(flag_list)

\* the sizes of the enumerated argument mappings and flag lists
MaxMapping == 2

MaxFlags == 2

name_ProteinDesign == <<"P","r","o","t","e","i","n","D","e","s","i","g","n">>
name_Bogus == <<"B","o","g","u","s">>
key_pdb == <<"p","d","b">>
key_seq == <<"s","e","q">>
key_bogus == <<"b","o","g","u","s">>
name_ppint == <<"p","p","i","n","t">>
val_semicolon == <<"x",";","y">>

CommandInputs == {name_ProteinDesign, name_Bogus}

KeyInputs == {key_pdb, key_seq, key_bogus}

ValueInputs == {val_lower, val_txt, val_empty, val_semicolon}

\* dicts: sequences of <<key, value>> with pairwise different keys
MappingInputs ==
    {m \in BoundedSeq(KeyInputs \X ValueInputs, MaxMapping) :
        \A i, j \in 1..Len(m) : i # j => m[i][1] # m[j][1]}

FlagInputs == BoundedSeq({name_ppint, key_bogus}, MaxFlags)

InitBuilder ==
    /\ pc = "build"
    /\ USE_DOCKER \in BOOLEAN
    /\ command \in CommandInputs
    /\ arguments \in MappingInputs
    /\ flags \in FlagInputs
    /\ command_args = <<>> /\ verdict = "none"
    /\ IdleFilename /\ IdleExecutor /\ IdleRoute /\ IdleHistory /\ IdlePool
    /\ IdleTail

\* build_command_from_dict(command, arguments, flags)
Build ==
    /\ pc = "build"
    /\ command_args' = build_command_from_dict(command, arguments, flags)
    /\ pc' = "validate"
    /\ UNCHANGED <<cleanupVars, detail, cleanerVars, containerVars, poolVars,
                   verdict, filenameVars, USE_DOCKER, requestVars, executorVars,
                   routeVars, historyVars>>

NextBuilder == Build \/ Validate

SpecBuilder == InitBuilder /\ [][NextBuilder]_vars

----------------------------------------------------------------------------
(* Path translation and container invocation (services/docker_executor.py) *)

\* PurePosixPath(p).parts: the root, when there is one, then the components
path_parts(p) ==
    (IF PathRoot(p) # <<>> THEN <<PathRoot(p)>> ELSE <<>>) \o PathParts(p)

\* Path(p).relative_to(other): ValueError unless the parts of other are a
\* prefix of the parts of p; the remainder as a POSIX string otherwise
relative_to(p, other) ==
    LET remainder(a, b) ==
            IF Len(b) <= Len(a) /\ SubSeq(a, 1, Len(b)) = b
            THEN [raised |-> "none",
                  value |-> IF Len(a) = Len(b) THEN <<".">>
                            ELSE JoinSlash(SubSeq(a, Len(b) + 1, Len(a)))]
            ELSE [raised |-> "ValueError", value |-> <<>>]
    IN  remainder(path_parts(p), path_parts(other))

\* the current directory of the server process
Cwd == <<"/","a","p","p">>

\* str(Path(p).absolute())
absolute(p) ==
    IF is_absolute(p) THEN PathStr(p) ELSE PathStr(Cwd \o <<"/">> \o p)

\* settings.DOCKER_CONTAINER_WORKDIR
DOCKER_CONTAINER_WORKDIR == <<"/","d","a","t","a">>

\* settings.DOCKER_IMAGE
DOCKER_IMAGE == <<"u","n","i","d","e","s","i","g","n">>

\* the test made on a value or on a whole token: an absolute path whose
\* text, lower-cased, starts with the lower-cased host directory
is_under_host(p, host_workdir) ==
    is_absolute(p) /\ StartsWith(Lower(PathStr(p)), Lower(host_workdir))

\* the loop body appending arg_lower where the argument is kept
convert_argument_lowered(arg, host_workdir, container_workdir) ==
    LET keyed(kv, under, rel) ==
            IF under
            THEN IF rel.raised # "none"
                 THEN [raised |-> rel.raised, value |-> <<>>]
                 ELSE [raised |-> "none",
                       value |-> kv[1] \o <<"=">> \o container_workdir \o <<"/">> \o rel.value]
            ELSE [raised |-> "none", value |-> Lower(arg)]
        with_value(kv) ==
            keyed(kv, is_under_host(kv[2], host_workdir), relative_to(kv[2], host_workdir))
        standalone(under, rel) ==
            IF under /\ rel.raised = "none"
            THEN [raised |-> "none", value |-> container_workdir \o <<"/">> \o rel.value]
            ELSE [raised |-> "none", value |-> Lower(arg)]
    IN  IF Contains(arg, <<"=">>)
        THEN with_value(Split1(arg, <<"=">>))
        ELSE standalone(is_under_host(arg, host_workdir), relative_to(arg, host_workdir))

\* the body of the loop of _convert_paths_to_container for one argument:
\* the exception that leaves it, or the token appended to converted
convert_argument(arg, host_workdir, container_workdir) ==
    LET keyed(kv, under, rel) ==
            IF under
            THEN IF rel.raised # "none"
                 THEN [raised |-> rel.raised, value |-> <<>>]
                 ELSE [raised |-> "none",
                       value |-> kv[1] \o <<"=">> \o container_workdir \o <<"/">> \o rel.value]
            ELSE [raised |-> "none", value |-> arg]
        with_value(kv) ==
            keyed(kv, is_under_host(kv[2], host_workdir), relative_to(kv[2], host_workdir))
        standalone(under, rel) ==
            IF under /\ rel.raised = "none"
            THEN [raised |-> "none", value |-> container_workdir \o <<"/">> \o rel.value]
            ELSE [raised |-> "none", value |-> arg]
    IN  IF Contains(arg, <<"=">>)
        THEN with_value(Split1(arg, <<"=">>))
        ELSE standalone(is_under_host(arg, host_workdir), relative_to(arg, host_workdir))

\* _convert_paths_to_container: the exception that leaves it, or the list
RECURSIVE convert_paths_to_container(_, _, _)
convert_paths_to_container(cmd, host_workdir, container_workdir) ==
    LET append(first, rest) ==
            IF first.raised # "none" THEN [raised |-> first.raised, value |-> <<>>]
            ELSE IF rest.raised # "none" THEN rest
            ELSE [raised |-> "none", value |-> <<first.value>> \o rest.value]
    IN  IF cmd = <<>> THEN [raised |-> "none", value |-> <<>>]
        ELSE append(convert_argument(Head(cmd), host_workdir, container_workdir),
                    convert_paths_to_container(Tail(cmd), host_workdir, container_workdir))

str_docker == <<"d","o","c","k","e","r">>
str_run == <<"r","u","n">>
str_rm == <<"-","-","r","m">>
str_v == <<"-","v">>
str_w == <<"-","w">>

\* _build_docker_command extending the list before the image is appended
build_docker_command_image_last(cmd, workdir) ==
    LET docker_cmd(host_workdir, converted) ==
            IF converted.raised # "none" THEN converted
            ELSE [raised |-> "none",
                  value |-> << str_docker, str_run, str_rm,
                               str_v, host_workdir \o <<":">> \o DOCKER_CONTAINER_WORKDIR,
                               str_w, DOCKER_CONTAINER_WORKDIR >>
                            \o converted.value \o <<DOCKER_IMAGE>>]
        convert(host_workdir) ==
            docker_cmd(host_workdir,
                       convert_paths_to_container(cmd, host_workdir, DOCKER_CONTAINER_WORKDIR))
    IN  convert(absolute(workdir))

\* _build_docker_command: the exception that leaves it, or the docker command
build_docker_command(cmd, workdir) ==
    LET docker_cmd(host_workdir, converted) ==
            IF converted.raised # "none" THEN converted
            ELSE [raised |-> "none",
                  value |-> << str_docker, str_run, str_rm,
                               str_v, host_workdir \o <<":">> \o DOCKER_CONTAINER_WORKDIR,
                               str_w, DOCKER_CONTAINER_WORKDIR,
                               DOCKER_IMAGE >> \o converted.value]
        convert(host_workdir) ==
            docker_cmd(host_workdir,
                       convert_paths_to_container(cmd, host_workdir, DOCKER_CONTAINER_WORKDIR))
    IN  convert(absolute(workdir))

----------------------------------------------------------------------------
(* Execution backends (services/engine_executor.py, docker_executor.py)    *)

\* settings.PDBENGINE_TIMEOUT
PDBENGINE_TIMEOUT == 600

PDBEngineExecutionResult(succ, out, err, code, time) ==
    [success |-> succ, stdout |-> out, stderr |-> err,
     return_code |-> code, execution_time |-> time]

\* what subprocess.run can do: return a CompletedProcess, or raise
\* TimeoutExpired after the timeout, or fail to launch the program
\* survives: whether a process the launched child had started elsewhere (the
\* container, started by the Docker daemon for the docker client) goes on
\* running after the child was killed
ProcessOutcomes ==
    [kind : {"completed"}, returncode : {0, 1, -1, -9}, stdout : {"stdout"},
     stderr : {"", "stderr"}, elapsed : {0, 1}, survives : {FALSE}]
    \cup [kind : {"TimeoutExpired"}, returncode : {0}, stdout : {"stdout"},
          stderr : {"stderr"}, elapsed : {PDBENGINE_TIMEOUT}, survives : BOOLEAN]
    \cup [kind : {"FileNotFoundError", "PermissionError"}, returncode : {0}, stdout : {""},
          stderr : {""}, elapsed : {0}, survives : {FALSE}]

\* whether the external program is still running once execute has returned:
\* subprocess.run kills and reaps the child it launched when the timeout
\* expires; in a container the program is not that child, and no handler
\* stops or removes the container
still_running(use_docker, env) ==
    use_docker /\ env.kind = "TimeoutExpired" /\ env.survives

\* the try block of _execute_local reporting success whatever the exit code
execute_local_try_always_success(cmd, workdir, env) ==
    IF env.kind # "completed"
    THEN [raised |-> env.kind, value |-> <<>>]
    ELSE [raised |-> "none",
          value |-> <<PDBEngineExecutionResult(TRUE, env.stdout, env.stderr,
                                               env.returncode, env.elapsed)>>]

\* the try block of _execute_local: the exception raised in it, or the result
execute_local_try(cmd, workdir, env) ==
    IF env.kind # "completed"
    THEN [raised |-> env.kind, value |-> <<>>]
    ELSE [raised |-> "none",
          value |-> <<PDBEngineExecutionResult(env.returncode = 0, env.stdout, env.stderr,
                                               env.returncode, env.elapsed)>>]

\* PDBEngineExecutor._execute_local with its three except clauses
execute_local(cmd, workdir, env) ==
    LET handle(body) ==
            IF body.raised = "none" THEN body
            ELSE IF body.raised = "TimeoutExpired"
            THEN [raised |-> "none",
                  value |-> <<PDBEngineExecutionResult(FALSE, "", "Process exceeded timeout",
                                                       -1, env.elapsed)>>]
            ELSE IF body.raised = "SecurityError"
            THEN [raised |-> "none",
                  value |-> <<PDBEngineExecutionResult(FALSE, "", "Security violation",
                                                       -2, env.elapsed)>>]
            ELSE [raised |-> "none",
                  value |-> <<PDBEngineExecutionResult(FALSE, "", "Execution error",
                                                       -3, env.elapsed)>>]
    IN  handle(execute_local_try(cmd, workdir, env))

\* the try block of DockerExecutor.execute: building the docker command is
\* inside it
docker_execute_try(cmd, workdir, env) ==
    LET run(docker_cmd) ==
            IF docker_cmd.raised # "none"
            THEN [raised |-> docker_cmd.raised, value |-> <<>>]
            ELSE IF env.kind # "completed"
            THEN [raised |-> env.kind, value |-> <<>>]
            ELSE [raised |-> "none",
                  value |-> <<PDBEngineExecutionResult(env.returncode = 0, env.stdout,
                                                       env.stderr, env.returncode,
                                                       env.elapsed)>>]
    IN  run(build_docker_command(cmd, workdir))

\* DockerExecutor.execute handling TimeoutExpired only
docker_execute_timeout_only(cmd, workdir, env) ==
    LET handle(body) ==
            IF body.raised = "TimeoutExpired"
            THEN [raised |-> "none",
                  value |-> <<PDBEngineExecutionResult(FALSE, "", "Process exceeded timeout",
                                                       -1, env.elapsed)>>]
            ELSE body
    IN  handle(docker_execute_try(cmd, workdir, env))

\* DockerExecutor.execute with its two except clauses
docker_execute(cmd, workdir, env) ==
    LET handle(body) ==
            IF body.raised = "none" THEN body
            ELSE IF body.raised = "TimeoutExpired"
            THEN [raised |-> "none",
                  value |-> <<PDBEngineExecutionResult(FALSE, "", "Process exceeded timeout",
                                                       -1, env.elapsed)>>]
            ELSE [raised |-> "none",
                  value |-> <<PDBEngineExecutionResult(FALSE, "", "Docker execution error",
                                                       -2, env.elapsed)>>]
    IN  handle(docker_execute_try(cmd, workdir, env))

\* PDBEngineExecutor.execute
execute(cmd, workdir, env) ==
    IF USE_DOCKER
    THEN docker_execute(cmd, workdir, env)
    ELSE execute_local(cmd, workdir, env)

----------------------------------------------------------------------------
(* The executor applied to an argument vector and a working directory      *)

tok_under == <<"-","-","p","d","b","=","/","w","/","j","1","/","a",".","p","d","b">>
tok_sibling == <<"-","-","p","d","b","=","/","w","/","j","1","0","/","a",".","p","d","b">>
tok_upper == <<"-","-","p","d","b","=","/","W","/","j","1","/","a",".","p","d","b">>
tok_relative == <<"-","-","p","d","b","=","a",".","p","d","b">>
tok_path_under == <<"/","w","/","j","1","/","o">>
tok_path_sibling == <<"/","w","/","j","1","0">>
tok_host == <<"-","-","p","d","b","=","/","w","/","j","1">>
tok_path_upper == <<"/","W","/","j","1","/","o">>
tok_dots == <<"-","-","p","d","b","=","/","w","/","/","j","1","/",".","/","a",".","p","d","b">>

dir_job == <<"/","w","/","j","1">>
dir_relative == <<"w","/","j","1">>
dir_slash == <<"/","w","/","j","1","/">>

\* the number of elements after element 0 in the vectors handed to execute
MaxExecArgs == 2

ExecTokens ==
    {tok_under, tok_sibling, tok_upper, tok_relative, tok_path_under, tok_path_sibling,
     tok_path_upper, tok_host, tok_dots, flag_ppint}

ExecVectors ==
    {<<h>> \o rest : h \in {sel_ProteinDesign, PDBENGINE_BINARY_PATH},
                     rest \in BoundedSeq(ExecTokens, MaxExecArgs)}

WorkDirs == {dir_job, dir_relative, dir_slash}

InitExecutor ==
    /\ pc = "execute"
    /\ USE_DOCKER \in BOOLEAN
    /\ command_args \in ExecVectors
    /\ working_directory \in WorkDirs
    /\ raised = "none"
    /\ result = <<>>
    /\ outcome = NoOutcome
    /\ verdict = "none"
    /\ IdleFilename /\ IdleRequest /\ IdleRoute /\ IdleHistory /\ IdlePool
    /\ IdleTail

\* PDBEngineExecutor.execute(command_args, working_directory)
Execute ==
    /\ pc = "execute"
    /\ \E env \in ProcessOutcomes :
          \E r \in {execute(command_args, working_directory, env)} :
              /\ raised' = r.raised
              /\ result' = r.value
              /\ outcome' = env
    /\ executed' = <<command_args>>
    /\ pc' = "done"
    /\ UNCHANGED <<cleanupVars, detail, cleanerVars, containerVars, poolVars,
                   validatorVars, filenameVars, USE_DOCKER, requestVars, working_directory,
                   routeVars, validated, preflight>>

NextExecutor == Execute

SpecExecutor == InitExecutor /\ [][NextExecutor]_vars

----------------------------------------------------------------------------
(* The docker command built from a vector and a working directory          *)

ContainerVectors ==
    {<<h>> \o rest : h \in {sel_ProteinDesign, PDBENGINE_BINARY_PATH},
                     rest \in BoundedSeq(ExecTokens, MaxExecArgs)}

InitContainer ==
    /\ pc = "start"
    /\ command_args \in ContainerVectors
    /\ working_directory \in WorkDirs
    /\ docker_command = NoReturn
    /\ converted_command = NoReturn
    /\ USE_DOCKER = TRUE
    /\ raised = "none" /\ result = <<>> /\ outcome = NoOutcome
    /\ verdict = "none"
    /\ IdleFilename /\ IdleRequest /\ IdleRoute /\ IdleHistory /\ IdlePool
    /\ IdleCleanup /\ detail = <<>> /\ IdleCleaner

\* DockerExecutor._build_docker_command(command_args, working_directory)
BuildDockerCommand ==
    /\ pc = "start"
    /\ docker_command' = build_docker_command(command_args, working_directory)
    /\ pc' = "built"
    /\ UNCHANGED <<cleanupVars, detail, cleanerVars, converted_command, poolVars, validatorVars,
                   filenameVars, USE_DOCKER, requestVars, executorVars, routeVars,
                   historyVars>>

\* DockerExecutor._convert_paths_to_container applied to the vector, and
\* then once more to the list it returned
ConvertPaths ==
    /\ \/ /\ pc = "start"
          /\ converted_command' =
                 convert_paths_to_container(command_args, absolute(working_directory),
                                            DOCKER_CONTAINER_WORKDIR)
          /\ command_args' = command_args
          /\ pc' = "once"
       \/ /\ pc = "once"
          /\ converted_command.raised = "none"
          /\ command_args' = converted_command.value
          /\ converted_command' =
                 convert_paths_to_container(converted_command.value,
                                            absolute(working_directory),
                                            DOCKER_CONTAINER_WORKDIR)
          /\ pc' = "twice"
    /\ UNCHANGED <<cleanupVars, detail, cleanerVars, docker_command, poolVars, verdict,
                   filenameVars, USE_DOCKER, requestVars, executorVars, routeVars,
                   historyVars>>

NextContainer == BuildDockerCommand \/ ConvertPaths

SpecContainer == InitContainer /\ [][NextContainer]_vars

----------------------------------------------------------------------------
(* pathlib and dict operations used by the request handlers                *)

\* str(Path(a) / b)
path_join(a, b) ==
    IF is_absolute(b) THEN PathStr(b)
    ELSE IF PathParts(a) = <<>> /\ is_absolute(a) THEN PathStr(PathRoot(a) \o b)
    ELSE PathStr(a \o <<"/">> \o b)

\* Path(p).name
path_name(p) ==
    LET parts == PathParts(p)
    IN  IF Len(parts) = 0 THEN <<>> ELSE parts[Len(parts)]

\* Path(p).stem: the name up to its last dot, unless that dot is first or last
path_stem(p) ==
    LET n == path_name(p)
        dots == {i \in 1..Len(n) : n[i] = "."}
        last == CHOOSE i \in dots : \A j \in dots : j <= i
    IN  IF dots # {} /\ last > 1 /\ last < Len(n) THEN Take(n, last - 1) ELSE n

\* str(Path(p).parent)
path_parent(p) ==
    LET parts == PathParts(p)
        body == IF Len(parts) = 0 THEN PathRoot(p)
                ELSE PathRoot(p) \o JoinSlash(SubSeq(parts, 1, Len(parts) - 1))
    IN  IF body = <<>> THEN <<".">> ELSE body

str_cleaned == <<"_","c","l","e","a","n","e","d",".","p","d","b">>

\* the output path of validate_and_clean: <parent>/<stem>_cleaned.pdb
cleaned_path(p) == path_join(path_parent(p), path_stem(p) \o str_cleaned)

\* key in d
dict_has(mapping, key) == \E i \in 1..Len(mapping) : mapping[i][1] = key

\* d[key] = value: in place when the key is there, appended otherwise
dict_set(mapping, key, value) ==
    IF dict_has(mapping, key)
    THEN [i \in 1..Len(mapping) |->
            IF mapping[i][1] = key THEN <<key, value>> ELSE mapping[i]]
    ELSE Append(mapping, <<key, value>>)

\* d[key]
dict_get(mapping, key) ==
    mapping[CHOOSE i \in 1..Len(mapping) : mapping[i][1] = key][2]

----------------------------------------------------------------------------
(* Workspace lifecycle (utils/workspace_manager.py, utils/archive_manager.py) *)

\* settings.WORKING_DIR, resolved by the settings validator
WORKING_DIR == <<"/","w">>

\* an entry of the file system: a regular file, a directory, or a symbolic
\* link to a directory
Entry(p, k) == [path |-> p, kind |-> k]

EntryKinds == {"file", "dir", "symlink_dir"}

\* the components of a path once the system has followed its ".." components
RECURSIVE followed(_, _)
followed(parts, done) ==
    IF parts = <<>> THEN done
    ELSE IF Head(parts) = <<".",".">>
    THEN followed(Tail(parts), IF done = <<>> THEN <<>> ELSE SubSeq(done, 1, Len(done) - 1))
    ELSE followed(Tail(parts), Append(done, Head(parts)))

\* the place on disk an absolute path names
located(p) == <<"/">> \o JoinSlash(followed(PathParts(p), <<>>))

\* the place p lies in the tree of the directory at place dir
lies_in(p, dir) ==
    LET inside(a, b) == Len(b) < Len(a) /\ SubSeq(a, 1, Len(b)) = b
    IN  inside(PathParts(p), PathParts(dir))

\* Path(p).exists()
path_exists(fs, p) == \E e \in fs : e.path = located(p)

\* what unlink or rmtree can do: remove everything, raise after removing the
\* contents of the directory, or raise at once
RemovalOutcomes == {"removed", "partial", "raises"}

\* the try block of cleanup_path: the exception raised in it, the file
\* system it leaves
cleanup_path_try(fs, path, removal) ==
    LET remove(place, found) ==
            IF found = {} THEN [raised |-> "none", value |-> fs]
            ELSE IF \E e \in found : e.kind = "file"
            THEN IF removal = "removed"
                 THEN [raised |-> "none", value |-> fs \ found]
                 ELSE [raised |-> "OSError", value |-> fs]
            ELSE IF \E e \in found : e.kind = "symlink_dir"
            THEN [raised |-> "OSError", value |-> fs]
            ELSE IF removal = "removed"
            THEN [raised |-> "none",
                  value |-> {e \in fs : e.path # place /\ ~lies_in(e.path, place)}]
            ELSE IF removal = "partial"
            THEN [raised |-> "OSError", value |-> {e \in fs : ~lies_in(e.path, place)}]
            ELSE [raised |-> "OSError", value |-> fs]
        at(place) == remove(place, {e \in fs : e.path = place})
    IN  at(located(path))

\* WorkspaceManager.cleanup_path without its except clause
cleanup_path_unguarded(fs, path, removal) == cleanup_path_try(fs, path, removal)

\* WorkspaceManager.cleanup_path: every exception is logged and dropped
cleanup_path(fs, path, removal) ==
    LET handle(body) == [raised |-> "none", value |-> body.value]
    IN  handle(cleanup_path_try(fs, path, removal))

\* Path(job_path).name
job_id(job_path) == path_name(job_path)

str_results == <<"_","r","e","s","u","l","t","s","_">>
str_zip == <<".","z","i","p">>
str_protein_design == <<"p","r","o","t","e","i","n","_","d","e","s","i","g","n">>

\* os.path.join(settings.WORKING_DIR, f"{zip_name}.zip") of create_results_zip
archive_path(zip_name) == WORKING_DIR \o <<"/">> \o zip_name \o str_zip

\* f"{command.lower()}_results_{job_id}"
execute_zip_name(cmd, job_path) == Lower(cmd) \o str_results \o job_id(job_path)

\* f"protein_design_results_{job_id}"
design_zip_name(job_path) == str_protein_design \o str_results \o job_id(job_path)

\* what create_results_zip can do: write the archive, raise with the archive
\* half written, or return the path of an archive that is no longer there
ArchiveOutcomes == {"written", "raises", "vanished"}

\* the except clauses of the handlers that schedule the removal of the
\* workspace: if job_path and Path(job_path).exists()
schedule_workspace(tasks, fs, job_path) ==
    IF job_path # <<>> /\ path_exists(fs, job_path) THEN Append(tasks, job_path) ELSE tasks

\* the except HTTPException clause of design_protein, which only re-raises
reraise(tasks, fs, job_path) == tasks

\* the background tasks run in the order they were added
RECURSIVE run_tasks(_, _, _)
run_tasks(fs, tasks, removals) ==
    IF tasks = <<>> THEN fs
    ELSE run_tasks(cleanup_path(fs, Head(tasks), Head(removals)).value,
                   Tail(tasks), Tail(removals))

----------------------------------------------------------------------------
(* The protein-design builder (core/commands.py, services/command_builder.py) *)

PROTEIN_DESIGN_COMMAND == <<"P","r","o","t","e","i","n","D","e","s","i","g","n">>

PROTEIN_DESIGN == CMD_BASE \o PROTEIN_DESIGN_COMMAND

PDB == <<"-","-","p","d","b","=">>

PPINT == <<"-","-","p","p","i","n","t">>

INTERFACE_ONLY == <<"-","-","i","n","t","e","r","f","a","c","e","_","o","n","l","y">>

\* Commands.is_valid_command
Commands_is_valid_command(tok) == tok \in {PROTEIN_DESIGN}

\* Flags.is_valid_flag
Flags_is_valid_flag(tok) == tok \in {PPINT, INTERFACE_ONLY}

\* core.commands.build_command(command, pdb_path, flags)
build_command(name, pdb_path, flag_list) ==
    <<get_command_base(name), PDB \o pdb_path>> \o SelectSeq(flag_list, Flags_is_valid_flag)

\* PDBCommandBuilder.build_secure_command: the vector it validated, the
\* validator's verdict, and the exception raised or the full command returned
build_secure_command(input_pdb_path, opts) ==
    LET flag_list == (IF opts.ppint THEN <<PPINT>> ELSE <<>>)
                     \o (IF opts.interface_only THEN <<INTERFACE_ONLY>> ELSE <<>>)
        checked(args, v) ==
            IF v # "True"
            THEN [raised |-> "SecurityError", value |-> <<>>, checked |-> args, verdict |-> v]
            ELSE [raised |-> "none", value |-> <<PDBENGINE_BINARY_PATH>> \o args,
                  checked |-> args, verdict |-> v]
        validate(args) == checked(args, validate_command_structure(args))
    IN  IF ~Commands_is_valid_command(PROTEIN_DESIGN)
        THEN [raised |-> "SecurityError", value |-> <<>>, checked |-> <<>>, verdict |-> "none"]
        ELSE IF \E i \in 1..Len(flag_list) : ~Flags_is_valid_flag(flag_list[i])
        THEN [raised |-> "SecurityError", value |-> <<>>, checked |-> <<>>, verdict |-> "none"]
        ELSE validate(build_command(PROTEIN_DESIGN_COMMAND, absolute(input_pdb_path),
                                    flag_list))

----------------------------------------------------------------------------
(* Request handlers (router/execute_command.py, router/protein_design.py,  *)
(* services/command_builder.py, services/protein_design_service.py)        *)

\* the size of the argument mapping and of the flag list of a request
MaxRequestArgs == 1

name_in == <<"i","n",".","p","d","b">>
name_upper == <<"I","N",".","P","D","B">>
name_semicolon == <<"a",";","b",".","p","d","b">>
name_txt == <<"x",".","t","x","t">>
name_parent == <<".",".","/","e",".","p","d","b">>

UploadNames == {name_in, name_upper, name_semicolon, name_txt, name_parent}

RequestMappings ==
    {m \in BoundedSeq(KeyInputs \X ValueInputs, MaxRequestArgs) :
        \A i, j \in 1..Len(m) : i # j => m[i][1] # m[j][1]}

RequestFlags == BoundedSeq({name_ppint, key_bogus}, MaxRequestArgs)

InitOrchestrator ==
    /\ pc = "request"
    /\ USE_DOCKER \in BOOLEAN
    /\ route \in {"execute", "protein_design"}
    /\ IF route = "execute"
       THEN /\ command \in CommandInputs
            /\ arguments \in RequestMappings
            /\ flags \in RequestFlags
            /\ input_filename \in {<<>>} \cup UploadNames
            /\ options = NoOptions
       ELSE /\ IdleRequest
            /\ input_filename \in UploadNames
            /\ options \in [ppint : BOOLEAN, interface_only : BOOLEAN]
    /\ command_args = <<>> /\ verdict = "none"
    /\ IdleFilename /\ IdleExecutor /\ IdleHistory /\ IdlePool
    /\ IdleTail

\* execute_command up to the call of the service: the JSON fields, the
\* command check, the workspace, the upload, and the except clauses that
\* answer when one of them fails
ExecuteCommandRequest ==
    /\ pc = "request"
    /\ route = "execute"
    /\ \E json_ok \in BOOLEAN, too_large \in BOOLEAN, write_ok \in BOOLEAN :
          IF ~json_ok \/ ~is_valid_command(command)
          THEN /\ pc' = "http_400"
               /\ UNCHANGED <<arguments, working_directory, files, background_tasks>>
          ELSE \E made \in {files \cup {Entry(dir_job, "dir")}} :
                  /\ working_directory' = dir_job
                  /\ IF input_filename = <<>>
                     THEN /\ pc' = "generic_service"
                          /\ files' = made
                          /\ UNCHANGED <<arguments, background_tasks>>
                     ELSE IF ~EndsWith(Lower(input_filename), DotPdb) \/ too_large \/ ~write_ok
                     THEN /\ pc' = IF ~EndsWith(Lower(input_filename), DotPdb) THEN "http_400"
                                   ELSE IF too_large THEN "http_413"
                                   ELSE "http_500"
                          /\ files' = made
                          /\ background_tasks' =
                                schedule_workspace(background_tasks, made, dir_job)
                          /\ UNCHANGED arguments
                     ELSE /\ arguments' = dict_set(arguments, key_pdb,
                                                   path_join(dir_job, input_filename))
                          /\ files' = made \cup
                                {Entry(located(path_join(dir_job, input_filename)), "file")}
                          /\ pc' = "generic_service"
                          /\ UNCHANGED background_tasks
    /\ UNCHANGED <<zip_path, detail, cleanerVars, containerVars, poolVars, validatorVars, filenameVars,
                   USE_DOCKER, command, flags, raised, result, outcome, routeVars,
                   historyVars>>

\* what PDBCleanerService.validate_and_clean can do with a file: return its
\* path, return the path of the cleaned copy, or raise FileNotFoundError
CleanerOutcomes == {"unchanged", "cleaned", "error"}

\* GenericCommandService.execute_command and what the router does with its
\* result: the answer 500 of a failed execution, or the archive next
GenericExecuteCommand ==
    /\ pc = "generic_service"
    /\ \E exists \in BOOLEAN, cleaner \in CleanerOutcomes, env \in ProcessOutcomes :
          IF input_filename # <<>> /\ dict_has(arguments, key_pdb) /\ exists
             /\ cleaner = "error"
          THEN /\ raised' = "EngineExecutionError"
               /\ pc' = "http_500"
               /\ background_tasks' =
                     schedule_workspace(background_tasks, files, working_directory)
               /\ UNCHANGED <<arguments, command_args, executed, result, outcome, files>>
          ELSE \E cleaned_args \in
                     {IF input_filename # <<>> /\ dict_has(arguments, key_pdb) /\ exists
                      THEN dict_set(arguments, key_pdb,
                                    IF cleaner = "cleaned"
                                    THEN cleaned_path(dict_get(arguments, key_pdb))
                                    ELSE PathStr(dict_get(arguments, key_pdb)))
                      ELSE arguments} :
                  \E vector \in {build_command_from_dict(command, cleaned_args, flags)} :
                     \E r \in {execute(vector, working_directory, env)} :
                        /\ arguments' = cleaned_args
                        /\ files' =
                              IF input_filename # <<>> /\ dict_has(arguments, key_pdb)
                                 /\ exists /\ cleaner = "cleaned"
                              THEN files \cup
                                   {Entry(located(dict_get(cleaned_args, key_pdb)), "file")}
                              ELSE files
                        /\ command_args' = vector
                        /\ executed' = <<vector>>
                        /\ outcome' = env
                        /\ raised' = r.raised
                        /\ result' = r.value
                        /\ IF r.raised = "none" /\ r.value[1].success
                           THEN pc' = "archive" /\ UNCHANGED background_tasks
                           ELSE /\ pc' = "http_500"
                                /\ background_tasks' =
                                      schedule_workspace(background_tasks, files',
                                                         working_directory)
    /\ UNCHANGED <<zip_path, detail, cleanerVars, containerVars, poolVars, verdict, filenameVars, USE_DOCKER,
                   command, flags, working_directory, routeVars, validated, preflight>>

\* design_protein up to the call of the service: the upload checks, the
\* workspace, the upload written into it
DesignProteinRequest ==
    /\ pc = "request"
    /\ route = "protein_design"
    /\ \E too_large \in BOOLEAN, write_ok \in BOOLEAN :
          IF ~EndsWith(Lower(input_filename), DotPdb)
          THEN pc' = "http_400" /\ UNCHANGED <<working_directory, files, background_tasks>>
          ELSE IF too_large
          THEN pc' = "http_413" /\ UNCHANGED <<working_directory, files, background_tasks>>
          ELSE \E made \in {files \cup {Entry(dir_job, "dir")}} :
                  /\ working_directory' = dir_job
                  /\ IF ~write_ok
                     THEN /\ pc' = "http_500"
                          /\ files' = made
                          /\ background_tasks' =
                                schedule_workspace(background_tasks, made, dir_job)
                     ELSE /\ pc' = "design_service"
                          /\ files' = made \cup
                                {Entry(located(path_join(dir_job, input_filename)), "file")}
                          /\ UNCHANGED background_tasks
    /\ UNCHANGED <<zip_path, detail, cleanerVars, containerVars, poolVars, validatorVars, filenameVars,
                   USE_DOCKER, requestVars, raised, result, outcome, routeVars, historyVars>>

\* ProteinDesignService.process_request and what the router does with its
\* result: the answer 500 of a failed execution, or the archive next
ProcessRequest ==
    /\ pc = "design_service"
    /\ \E cleaner \in CleanerOutcomes, env \in ProcessOutcomes :
          \E input_pdb_path \in {path_join(working_directory, input_filename)} :
             \E built \in {build_secure_command(
                              IF cleaner = "cleaned" THEN cleaned_path(input_pdb_path)
                              ELSE input_pdb_path, options)} :
                /\ verdict' = built.verdict
                /\ validated' = IF built.verdict = "True"
                                THEN validated \cup {built.checked} ELSE validated
                /\ files' = IF cleaner = "cleaned"
                            THEN files \cup {Entry(located(cleaned_path(input_pdb_path)), "file")}
                            ELSE files
                /\ IF built.raised # "none"
                   THEN /\ command_args' = built.checked
                        /\ raised' = built.raised
                        /\ pc' = "http_500"
                        /\ background_tasks' =
                              schedule_workspace(background_tasks, files', working_directory)
                        /\ UNCHANGED <<result, executed, outcome>>
                   ELSE \E r \in {execute(built.value, working_directory, env)} :
                           /\ command_args' = built.value
                           /\ executed' = <<built.value>>
                           /\ outcome' = env
                           /\ raised' = r.raised
                           /\ result' = r.value
                           /\ IF r.raised = "none" /\ r.value[1].success
                              THEN pc' = "archive" /\ UNCHANGED background_tasks
                              ELSE /\ pc' = "http_500"
                                   /\ background_tasks' =
                                         reraise(background_tasks, files', working_directory)
    /\ UNCHANGED <<zip_path, detail, cleanerVars, containerVars, poolVars, filenameVars, USE_DOCKER,
                   requestVars, working_directory, routeVars, preflight>>

\* the end of execute_command and of design_protein after a successful
\* execution: the archive, the cleanup tasks, the answer
ArchiveResults ==
    /\ pc = "archive"
    /\ \E made \in ArchiveOutcomes :
          \E archive \in {archive_path(IF route = "execute"
                                       THEN execute_zip_name(command, working_directory)
                                       ELSE design_zip_name(working_directory))} :
             IF made = "written"
             THEN /\ zip_path' = archive
                  /\ files' = files \cup {Entry(located(archive), "file")}
                  /\ background_tasks' = background_tasks \o <<archive, working_directory>>
                  /\ pc' = "http_200"
             ELSE IF made = "raises"
             THEN /\ zip_path' = <<>>
                  /\ files' = files \cup {Entry(located(archive), "file")}
                  /\ background_tasks' =
                        schedule_workspace(background_tasks, files, working_directory)
                  /\ pc' = "http_500"
             ELSE /\ zip_path' = archive
                  /\ files' = files
                  /\ background_tasks' =
                        IF route = "execute"
                        THEN schedule_workspace(background_tasks, files, working_directory)
                        ELSE reraise(background_tasks, files, working_directory)
                  /\ pc' = "http_500"
    /\ UNCHANGED <<detail, cleanerVars, containerVars, poolVars, validatorVars, filenameVars, USE_DOCKER,
                   requestVars, executorVars, routeVars, historyVars>>

\* the answers of the handlers
Answered == {"http_200", "http_400", "http_413", "http_500"}

\* after the answer was sent, the background tasks run one after the other
RunBackgroundTasks ==
    /\ pc \in Answered
    /\ background_tasks # <<>>
    /\ \E removals \in [1..Len(background_tasks) -> RemovalOutcomes] :
          files' = run_tasks(files, background_tasks, removals)
    /\ pc' = "closed"
    /\ UNCHANGED <<background_tasks, zip_path, detail, cleanerVars, containerVars, poolVars, validatorVars,
                   filenameVars, USE_DOCKER, requestVars, executorVars, routeVars,
                   historyVars>>

\* what "docker info" can do: exit 0, exit with an error, or fail to run
DockerInfoOutcomes == {"running", "not_running", "raises"}

\* what "docker images -q <image>" can do: print an id, print nothing, or
\* fail to run
DockerImagesOutcomes == {"listed", "empty", "raises"}

\* DockerExecutor.check_docker_available
check_docker_available(info, images) ==
    IF info = "raises" THEN FALSE
    ELSE IF info # "running" THEN FALSE
    ELSE IF images = "raises" THEN FALSE
    ELSE IF images = "empty" THEN FALSE
    ELSE TRUE

\* GET /health: the only caller of check_docker_available
HealthCheck ==
    /\ USE_DOCKER
    /\ \E info \in DockerInfoOutcomes, images \in DockerImagesOutcomes :
          preflight' = IF check_docker_available(info, images)
                       THEN "available" ELSE "unavailable"
    /\ UNCHANGED <<cleanupVars, detail, cleanerVars, containerVars, poolVars,
                   pc, validatorVars, filenameVars, USE_DOCKER, requestVars, executorVars,
                   routeVars, validated, executed>>

NextOrchestrator ==
    \/ HealthCheck
    \/ ExecuteCommandRequest
    \/ GenericExecuteCommand
    \/ DesignProteinRequest
    \/ ProcessRequest
    \/ ArchiveResults
    \/ RunBackgroundTasks

SpecOrchestrator == InitOrchestrator /\ [][NextOrchestrator]_vars

----------------------------------------------------------------------------
(* cleanup_path applied to a path of a file system                         *)

path_zip == <<"/","w","/","r",".","z","i","p">>
path_upload == <<"/","w","/","j","1","/","i","n",".","p","d","b">>
path_other == <<"/","w","/","j","2">>
path_dotdot == <<"/","w","/","j","2","/",".",".","/","j","1">>

\* the paths cleanup_path is called on
CleanupPaths == {dir_job, dir_slash, path_zip, path_upload, path_other, path_dotdot}

\* file systems: the workspace as a directory, a file or a link to a
\* directory, the upload in it, the archive beside it
CleanupFileSystems ==
    {fs \in SUBSET ({Entry(dir_job, k) : k \in EntryKinds}
                    \cup {Entry(path_upload, "file"), Entry(path_zip, "file")}) :
        /\ \A e, f \in fs : e.path = f.path => e = f
        /\ Entry(path_upload, "file") \in fs => Entry(dir_job, "dir") \in fs}

InitCleanup ==
    /\ pc = "cleanup"
    /\ files \in CleanupFileSystems
    /\ background_tasks \in {<<p>> : p \in CleanupPaths}
    /\ zip_path = <<>> /\ detail = <<>> /\ IdleCleaner /\ IdleContainer
    /\ USE_DOCKER = FALSE
    /\ command_args = <<>> /\ verdict = "none"
    /\ IdleFilename /\ IdleRequest /\ IdleExecutor /\ IdleRoute /\ IdleHistory /\ IdlePool

\* WorkspaceManager.cleanup_path(path), called a first and a second time
CleanupPath ==
    /\ pc \in {"cleanup", "once"}
    /\ \E removal \in RemovalOutcomes :
          \E r \in {cleanup_path(files, Head(background_tasks), removal)} :
             /\ files' = r.value
             /\ raised' = r.raised
             /\ outcome' = [kind |-> removal]
    /\ pc' = IF pc = "cleanup" THEN "once" ELSE "twice"
    /\ UNCHANGED <<background_tasks, zip_path, detail, cleanerVars, containerVars, poolVars, validatorVars,
                   filenameVars, USE_DOCKER, requestVars, working_directory, result,
                   routeVars, historyVars>>

NextCleanup == CleanupPath

SpecCleanup == InitCleanup /\ [][NextCleanup]_vars

----------------------------------------------------------------------------
(* stderr on its way to the caller (errors/engine_exceptions.py,           *)
(* router/execute_command.py, router/protein_design.py)                    *)

str_command_failed ==
    <<"C","o","m","m","a","n","d"," ","e","x","e","c","u","t","i","o","n"," ","f","a","i","l","e","d",":"," ">>
str_design_failed ==
    <<"P","r","o","t","e","i","n"," ","d","e","s","i","g","n"," ","f","a","i","l","e","d",":"," ">>
str_unknown_error == <<"U","n","k","n","o","w","n"," ","e","r","r","o","r">>

\* the slice stderr[:1000] of PDBEngineExecutionError.__init__
STDERR_LIMIT == 1000

\* the detail of the HTTPException execute_command raises for a failed result
execute_detail(res) ==
    str_command_failed \o (IF res.stderr # <<>> THEN res.stderr ELSE str_unknown_error)

\* the detail of the HTTPException design_protein raises for a failed result
design_detail(res) ==
    str_design_failed \o (IF res.stderr # <<>> THEN res.stderr ELSE str_unknown_error)

\* PDBEngineExecutionError.__init__: details["stderr"], set when stderr is
\* not empty
execution_error_details(err) == IF err # <<>> THEN <<Take(err, STDERR_LIMIT)>> ELSE <<>>

\* the lengths of the stderr a process leaves
StderrLengths == {0, 1, STDERR_LIMIT - 1, STDERR_LIMIT, STDERR_LIMIT + 1, 2 * STDERR_LIMIT}

\* the failed results an executor returns, stderr as characters
FailedResults ==
    {PDBEngineExecutionResult(FALSE, "stdout", Rep(c, n), code, 1) :
        c \in {"e", "x"}, n \in StderrLengths, code \in {1, -1, -2, -9}}

InitSurface ==
    /\ pc = "failed"
    /\ route \in {"execute", "protein_design", "none"}
    /\ \E res \in FailedResults : result = <<res>>
    /\ detail = <<>>
    /\ input_filename = <<>> /\ options = NoOptions
    /\ working_directory = <<>> /\ raised = "none" /\ outcome = NoOutcome
    /\ USE_DOCKER = FALSE
    /\ command_args = <<>> /\ verdict = "none"
    /\ IdleFilename /\ IdleRequest /\ IdleHistory /\ IdlePool /\ IdleCleanup /\ IdleCleaner
    /\ IdleContainer

\* execute_command: if not result.success, raise HTTPException(500, detail)
SurfaceExecute ==
    /\ pc = "failed"
    /\ route = "execute"
    /\ detail' = <<execute_detail(result[1])>>
    /\ raised' = "HTTPException"
    /\ pc' = "surfaced"
    /\ UNCHANGED <<cleanupVars, cleanerVars, containerVars, poolVars, validatorVars, filenameVars, USE_DOCKER,
                   requestVars, working_directory, result, outcome, routeVars, historyVars>>

\* design_protein: if not result.success, raise HTTPException(500, detail)
SurfaceDesign ==
    /\ pc = "failed"
    /\ route = "protein_design"
    /\ detail' = <<design_detail(result[1])>>
    /\ raised' = "HTTPException"
    /\ pc' = "surfaced"
    /\ UNCHANGED <<cleanupVars, cleanerVars, containerVars, poolVars, validatorVars, filenameVars, USE_DOCKER,
                   requestVars, working_directory, result, outcome, routeVars, historyVars>>

\* PDBEngineExecutionError(message, stderr=result.stderr) sets its details
RaiseExecutionError ==
    /\ pc = "failed"
    /\ route = "none"
    /\ detail' = execution_error_details(result[1].stderr)
    /\ raised' = "PDBEngineExecutionError"
    /\ pc' = "surfaced"
    /\ UNCHANGED <<cleanupVars, cleanerVars, containerVars, poolVars, validatorVars, filenameVars, USE_DOCKER,
                   requestVars, working_directory, result, outcome, routeVars, historyVars>>

NextSurface == SurfaceExecute \/ SurfaceDesign \/ RaiseExecutionError

SpecSurface == InitSurface /\ [][NextSurface]_vars

----------------------------------------------------------------------------
(* Preprocessing of the input file (services/pdb_cleaner_service.py)       *)

\* what PDBCleanerService.clean can do: write the cleaned file and return
\* its path, or raise
CleanOutcomes == {"saved", "raises"}

\* the try block of validate_and_clean
validate_and_clean_try(path, needs_cleaning, clean) ==
    IF ~needs_cleaning THEN [raised |-> "none", value |-> path]
    ELSE IF clean = "saved" THEN [raised |-> "none", value |-> cleaned_path(path)]
    ELSE [raised |-> "Exception", value |-> <<>>]

\* PDBCleanerService.validate_and_clean(pdb_path): the exception raised, or
\* the path returned
validate_and_clean(path, exists, enabled, needs_cleaning, clean) ==
    LET handle(body) ==
            IF body.raised = "none" THEN body ELSE [raised |-> "none", value |-> path]
    IN  IF ~exists THEN [raised |-> "FileNotFoundError", value |-> <<>>]
        ELSE IF ~enabled THEN [raised |-> "none", value |-> path]
        ELSE handle(validate_and_clean_try(path, needs_cleaning, clean))

name_cleaned == <<"i","n","_","c","l","e","a","n","e","d",".","p","d","b">>
name_hidden == <<".","p","d","b">>
name_bare == <<"i","n">>
name_two_dots == <<"a",".","b",".","p","d","b">>
dir_root == <<"/">>

\* the paths validate_and_clean is called on: str(Path(directory) / name)
CleanerPaths ==
    {path_join(d, n) :
        d \in {dir_job, dir_relative, dir_root},
        n \in {name_in, name_upper, name_semicolon, name_parent, name_txt,
               name_cleaned, name_hidden, name_bare, name_two_dots}}

InitCleaner ==
    /\ pc = "clean"
    /\ original_path \in CleanerPaths
    /\ files \in {{}, {Entry(located(absolute(original_path)), "file")},
                  {Entry(located(absolute(original_path)), "file"),
                   Entry(located(absolute(cleaned_path(original_path))), "file")}}
    /\ processed = NoReturn
    /\ background_tasks = <<>> /\ zip_path = <<>> /\ detail = <<>>
    /\ USE_DOCKER = FALSE
    /\ command_args = <<>> /\ verdict = "none"
    /\ IdleFilename /\ IdleRequest /\ IdleExecutor /\ IdleRoute /\ IdleHistory /\ IdlePool
    /\ IdleContainer

\* PDBCleanerService.validate_and_clean(pdb_path)
ValidateAndClean ==
    /\ pc = "clean"
    /\ \E enabled \in BOOLEAN, needs_cleaning \in BOOLEAN, clean \in CleanOutcomes :
          \E r \in {validate_and_clean(original_path,
                                       path_exists(files, absolute(original_path)),
                                       enabled, needs_cleaning, clean)} :
             /\ processed' = r
             /\ files' = IF r.raised = "none" /\ r.value # original_path
                         THEN files \cup {Entry(located(absolute(r.value)), "file")}
                         ELSE files
    /\ pc' = "cleaned"
    /\ UNCHANGED <<background_tasks, zip_path, detail, original_path, containerVars, poolVars, validatorVars,
                   filenameVars, USE_DOCKER, requestVars, executorVars, routeVars,
                   historyVars>>

NextCleaner == ValidateAndClean

SpecCleaner == InitCleaner /\ [][NextCleaner]_vars

----------------------------------------------------------------------------
(* Requests in flight in one server process (main.py, router/execute_command.py, *)
(* utils/workspace_manager.py)                                             *)

\* settings.MAX_CONCURRENT_TASKS
MAX_CONCURRENT_TASKS == 3

\* the number of requests sent to the server
NumRequests == 4

\* requests are numbered in the order in which the event loop picks them up
Requests == 1..NumRequests

\* the text of an identifier
WorkspaceName(n) == <<"j", <<"1","2","3","4","5","6","7","8","9">>[n]>>

\* uuid.uuid4(): an identifier that differs from every one issued before
uuid4_repeating(earlier) == 1

\* uuid.uuid4(): an identifier that differs from every one issued before
uuid4(earlier) == CHOOSE n \in 1..(Cardinality(earlier) + 1) : n \notin earlier

\* os.path.join(settings.WORKING_DIR, workspace_id)
workspace_path(n) == WORKING_DIR \o <<"/">> \o WorkspaceName(n)

NoJob == [pc |-> "pending", job_path |-> <<>>]

\* the host directory of the -v option of the docker command of a job
mounted_directory(job_path) ==
    LET source(volume) ==
            SubSeq(volume, 1, Len(volume) - Len(DOCKER_CONTAINER_WORKDIR) - 1)
    IN  source(build_docker_command(<<>>, job_path).value[5])

\* the cwd subprocess.run is given by _execute_local
current_directory(job_path) == job_path

\* the program subprocess.run launches for a job: the engine with the
\* workspace as current directory, or docker run with the workspace mounted
process_of(r, job_path) ==
    [job |-> r,
     dir |-> IF USE_DOCKER THEN mounted_directory(job_path)
             ELSE current_directory(job_path)]

\* no handler is inside the blocking call of subprocess.run: the handlers
\* are coroutines of one event loop and call the service without awaiting
LoopFree == \A r \in Requests : jobs[r].pc # "executing"

InitConcurrent ==
    /\ pc = "serving"
    /\ USE_DOCKER \in BOOLEAN
    /\ jobs = [r \in Requests |-> NoJob]
    /\ running = {}
    /\ workspaces = {}
    /\ issued = {}
    /\ command_args = <<>> /\ verdict = "none"
    /\ IdleFilename /\ IdleRequest /\ IdleExecutor /\ IdleRoute
    /\ validated = {} /\ executed = <<>> /\ preflight = "never"
    /\ IdleTail

\* execute_command from the command check to the first await: the workspace
\* is created, then the upload, when there is one, is awaited
Accept(r) ==
    /\ LoopFree
    /\ jobs[r].pc = "pending"
    /\ \A q \in Requests : q < r => jobs[q].pc # "pending"
    /\ \E has_file \in BOOLEAN :
          jobs' = [jobs EXCEPT ![r] = [pc |-> IF has_file THEN "reading" ELSE "built",
                                       job_path |-> workspace_path(uuid4(issued))]]
    /\ issued' = issued \cup {uuid4(issued)}
    /\ workspaces' = workspaces \cup {workspace_path(uuid4(issued))}
    /\ UNCHANGED <<cleanupVars, detail, cleanerVars, containerVars,
                   pc, validatorVars, filenameVars, USE_DOCKER, requestVars, executorVars,
                   routeVars, historyVars, running>>

\* execute_command after await file.read(): the upload is written into the
\* workspace and the job is made
Resume(r) ==
    /\ LoopFree
    /\ jobs[r].pc = "reading"
    /\ jobs' = [jobs EXCEPT ![r].pc = "built"]
    /\ UNCHANGED <<cleanupVars, detail, cleanerVars, containerVars,
                   pc, validatorVars, filenameVars, USE_DOCKER, requestVars, executorVars,
                   routeVars, historyVars, running, workspaces, issued>>

\* GenericCommandService.execute_command up to subprocess.run: the child is
\* launched, or the launch fails and the handler answers
Launch(r) ==
    /\ LoopFree
    /\ jobs[r].pc = "built"
    /\ \E env \in ProcessOutcomes :
          IF env.kind \in {"FileNotFoundError", "PermissionError"}
          THEN /\ jobs' = [jobs EXCEPT ![r].pc = "responded"]
               /\ UNCHANGED running
          ELSE /\ jobs' = [jobs EXCEPT ![r].pc = "executing"]
               /\ running' = running \cup {process_of(r, jobs[r].job_path)}
    /\ UNCHANGED <<cleanupVars, detail, cleanerVars, containerVars,
                   pc, validatorVars, filenameVars, USE_DOCKER, requestVars, executorVars,
                   routeVars, historyVars, workspaces, issued>>

\* subprocess.run returns or raises TimeoutExpired, and the handler answers
Finish(r) ==
    /\ jobs[r].pc = "executing"
    /\ \E env \in ProcessOutcomes :
          /\ env.kind \in {"completed", "TimeoutExpired"}
          /\ running' = IF still_running(USE_DOCKER, env)
                        THEN running
                        ELSE running \ {process_of(r, jobs[r].job_path)}
    /\ jobs' = [jobs EXCEPT ![r].pc = "responded"]
    /\ UNCHANGED <<cleanupVars, detail, cleanerVars, containerVars,
                   pc, validatorVars, filenameVars, USE_DOCKER, requestVars, executorVars,
                   routeVars, historyVars, workspaces, issued>>

\* a container that outlived its docker client comes to its end
ContainerExits(r) ==
    /\ jobs[r].pc \in {"responded", "cleaned"}
    /\ process_of(r, jobs[r].job_path) \in running
    /\ running' = running \ {process_of(r, jobs[r].job_path)}
    /\ UNCHANGED <<cleanupVars, detail, cleanerVars, containerVars,
                   pc, validatorVars, filenameVars, USE_DOCKER, requestVars, executorVars,
                   routeVars, historyVars, jobs, workspaces, issued>>

\* WorkspaceManager.cleanup_path(job_path), run as a background task
Cleanup(r) ==
    /\ LoopFree
    /\ jobs[r].pc = "responded"
    /\ jobs' = [jobs EXCEPT ![r].pc = "cleaned"]
    /\ workspaces' = workspaces \ {jobs[r].job_path}
    /\ UNCHANGED <<cleanupVars, detail, cleanerVars, containerVars,
                   pc, validatorVars, filenameVars, USE_DOCKER, requestVars, executorVars,
                   routeVars, historyVars, running, issued>>

NextConcurrent ==
    \E r \in Requests :
        \/ Accept(r)
        \/ Resume(r)
        \/ Launch(r)
        \/ Finish(r)
        \/ ContainerExits(r)
        \/ Cleanup(r)

SpecConcurrent == InitConcurrent /\ [][NextConcurrent]_vars

----------------------------------------------------------------------------
(* Properties of the validator                                             *)

\* some element of the vector contains a dangerous pattern
HasDangerous(v) == \E i \in 1..Len(v) : DANGEROUS_PATTERNS(v[i])

\* the token is '--command=<name>' and <name>, the whole text after the
\* prefix, is a Registry command
NamesRegistryCommand(tok) ==
    /\ StartsWith(tok, CMD_BASE)
    /\ Drop(tok, Len(CMD_BASE)) \in VALID_COMMANDS

\* the token is exactly '--<key>=<value>' with <key> a Registry argument key
IsArgumentToken(tok) ==
    \E key \in VALID_ARGUMENTS : StartsWith(tok, <<"-","-">> \o key \o <<"=">>)

\* the token is exactly '--<flag>' with <flag> a Registry flag
IsFlagToken(tok) == \E flag \in VALID_FLAGS : tok = <<"-","-">> \o flag

PdbPrefix == <<"-","-","p","d","b","=">>

\* the token is a 'pdb' argument
IsPdbToken(tok) == StartsWith(tok, PdbPrefix)

PdbValue(tok) == Drop(tok, Len(PdbPrefix))

\* the four conditions on the value of a 'pdb' argument
IsValidPdbValue(v) ==
    /\ EndsWith(Lower(v), DotPdb)
    /\ Len(v) <= MaxPdbPathLen
    /\ ~Contains(v, <<NUL>>)
    /\ ~Contains(v, <<".",".">>)

C3_UnknownCommandRejected ==
    (pc = "done" /\ command_args # <<>> /\ ~NamesRegistryCommand(command_args[1]))
        => verdict \in {ErrFirstArg, ErrInvalidCommand}

\* the claim's hypothesis on the elements of a vector
IsWellFormed(v) ==
    /\ v # <<>>
    /\ NamesRegistryCommand(v[1])
    /\ \A i \in 2..Len(v) : IsArgumentToken(v[i]) \/ IsFlagToken(v[i])
    /\ ~HasDangerous(v)
    /\ \A i \in 2..Len(v) : IsPdbToken(v[i]) => IsValidPdbValue(PdbValue(v[i]))

\* C4: a vector with a Registry selector, Registry-valid '--key=value' and
\* '--flag' elements, no dangerous pattern and valid 'pdb' values is
\* accepted: validate_command_structure returns True.
C4_WellFormedAccepted ==
    (pc = "done" /\ IsWellFormed(command_args)) => verdict = "True"

\* a well-formed vector with an upper-case 'pdb' value and a flag was accepted
C4_Witness ==
    /\ pc = "done"
    /\ IsWellFormed(command_args)
    /\ Len(command_args) = 3
    /\ \E i \in 2..3 : IsPdbToken(command_args[i]) /\ PdbValue(command_args[i]) = val_upper
    /\ \E i \in 2..3 : IsFlagToken(command_args[i])
    /\ verdict = "True"

\* C6: every accepted vector has the wire shape: each element after index 0
\* is exactly '--<Registry key>=<value>' or exactly '--<Registry flag>'.
C6_AcceptedHasWireShape ==
    (pc = "done" /\ verdict = "True")
        => \A i \in 2..Len(command_args) :
              IsArgumentToken(command_args[i]) \/ IsFlagToken(command_args[i])

\* C7 as stated: in every accepted vector the value of every 'pdb' argument
\* ends with '.pdb', has at most 1000 characters, no null byte and no '..'.
C7_EveryPdbValueValid ==
    (pc = "done" /\ verdict = "True")
        => \A i \in 2..Len(command_args) :
              IsPdbToken(command_args[i]) => IsValidPdbValue(PdbValue(command_args[i]))

\* C7 amended: in every accepted vector the value of every 'pdb' argument
\* that has a non-empty value ends with '.pdb' (case-insensitive), has at
\* most 1000 characters, no null byte and no '..'; a 'pdb' argument with an
\* empty value is not checked.
C7_NonEmptyPdbValueValid ==
    (pc = "done" /\ verdict = "True")
        => \A i \in 2..Len(command_args) :
              (IsPdbToken(command_args[i]) /\ PdbValue(command_args[i]) # <<>>)
                  => IsValidPdbValue(PdbValue(command_args[i]))

\* an accepted vector whose 'pdb' value is exactly at the length limit
C7_Witness ==
    /\ pc = "done"
    /\ verdict = "True"
    /\ \E i \in 2..Len(command_args) :
          /\ IsPdbToken(command_args[i])
          /\ Len(PdbValue(command_args[i])) = MaxPdbPathLen

----------------------------------------------------------------------------
(* Properties of validate_filename                                         *)

C9_SanitizedIsSafe ==
    (pc = "done" /\ sanitized.raised = "none") =>
        LET v == sanitized.value
        IN  /\ \A i \in 1..Len(v) : v[i] \in SafeChars
            /\ ~Contains(v, <<".",".">>)
            /\ EndsWith(Lower(v), DotPdb)
            /\ Len(v) <= MaxFilenameLen

----------------------------------------------------------------------------
(* Properties of the builder                                               *)

\* every key of the mapping and every member of the flag list is in the Registry
HasRegistryKeysOnly(mapping, flag_list) ==
    /\ \A i \in 1..Len(mapping) : mapping[i][1] \in VALID_ARGUMENTS
    /\ \A i \in 1..Len(flag_list) : flag_list[i] \in VALID_FLAGS

\* C5: for a Registry command and Registry-valid keys and flags, the vector
\* returned by build_command_from_dict is accepted by
\* validate_command_structure, in Local and in Containerized configuration.
C5_BuiltIsAccepted ==
    (/\ pc = "done"
     /\ command \in VALID_COMMANDS
     /\ HasRegistryKeysOnly(arguments, flags))
        => verdict = "True"

----------------------------------------------------------------------------
(* Properties of the executor                                              *)

\* C10: PDBEngineExecutor.execute never raises, for either strategy: every
\* outcome (normal exit, non-zero exit, timeout, launch failure, failure
\* while building the container command or translating paths) is returned
\* as a PDBEngineExecutionResult.
C10_ExecuteNeverRaises ==
    pc = "done" => (raised = "none" /\ Len(result) = 1)

\* path translation failed while the container command was built, and a
\* result was returned all the same
C10_Witness ==
    /\ pc = "done"
    /\ USE_DOCKER
    /\ build_docker_command(command_args, working_directory).raised = "ValueError"
    /\ raised = "none"
    /\ Len(result) = 1
    /\ ~result[1].success

----------------------------------------------------------------------------
(* Properties of the request handlers                                      *)

\* C1: on both orchestrator paths, a vector that reaches
\* PDBEngineExecutor.execute has first been accepted by
\* validate_command_structure (as it stands, or as the arguments that follow
\* the binary path).
C1_ExecutedWasValidated ==
    executed # <<>> =>
        \/ executed[1] \in validated
        \/ /\ executed[1] # <<>>
           /\ Head(executed[1]) = PDBENGINE_BINARY_PATH
           /\ Tail(executed[1]) \in validated

----------------------------------------------------------------------------
(* Properties of the results of the executor                               *)

\* the container command could not be built: subprocess.run was not reached
BuildFailed ==
    USE_DOCKER /\ build_docker_command(command_args, working_directory).raised # "none"

\* C11: every result of either backend has success = (return_code = 0); a
\* timeout or an error gives success false and a non-zero return code; the
\* execution time is the time measured, on every path.
C11_SuccessIffExitZero ==
    (pc = "done" /\ Len(result) = 1) =>
        /\ result[1].success = (result[1].return_code = 0)
        /\ (outcome.kind # "completed" \/ BuildFailed) =>
               (~result[1].success /\ result[1].return_code # 0)
        /\ result[1].execution_time = outcome.elapsed

\* a timeout of the local child, returned with the time spent
C11_Witness ==
    /\ pc = "done"
    /\ ~USE_DOCKER
    /\ outcome.kind = "TimeoutExpired"
    /\ Len(result) = 1
    /\ ~result[1].success
    /\ result[1].return_code = -1
    /\ result[1].execution_time = PDBENGINE_TIMEOUT

\* the result of a timeout: no success, return code -1, no output reported
\* as stdout, the time spent
IsTimeoutResult ==
    /\ Len(result) = 1
    /\ ~result[1].success
    /\ result[1].return_code = -1
    /\ result[1].stdout = ""
    /\ result[1].execution_time = outcome.elapsed

\* C12: when the timeout expires while the external program (or container)
\* is running, both backends terminate it and return a result with success
\* false and return code -1, with the execution time and without the partial
\* output as stdout.
C12_TimeoutTerminatesAndReports ==
    (pc = "done" /\ outcome.kind = "TimeoutExpired" /\ ~BuildFailed) =>
        /\ IsTimeoutResult
        /\ ~still_running(USE_DOCKER, outcome)

\* C13: a launch failure other than a timeout (program or runtime missing,
\* permission denied) is encoded alike by both strategies: success false and
\* return code -3.
C13_LaunchFailureIsMinusThree ==
    (/\ pc = "done"
     /\ outcome.kind \in {"FileNotFoundError", "PermissionError"}
     /\ ~BuildFailed) =>
        /\ Len(result) = 1
        /\ ~result[1].success
        /\ result[1].return_code = -3

----------------------------------------------------------------------------
(* Properties of the preflight check                                       *)

\* C14: in Containerized mode no job is accepted and executed unless
\* check_docker_available has succeeded beforehand; once the check has
\* reported the backend unavailable, no job is executed.
C14_PreflightBeforeExecution ==
    (USE_DOCKER /\ executed # <<>>) => preflight = "available"

----------------------------------------------------------------------------
(* Properties of path translation                                          *)

\* the part of a token that may be a path: the value of "key=value",
\* otherwise the whole token
PathPart(tok) ==
    IF Contains(tok, <<"=">>) THEN Split1(tok, <<"=">>)[2] ELSE tok

\* the "key=" part of a token, empty when it has none
KeyPart(tok) ==
    IF Contains(tok, <<"=">>) THEN Split1(tok, <<"=">>)[1] \o <<"=">> ELSE <<>>

\* the components of a path, lower-cased
LowerParts(p) ==
    LET lowered(parts) == [i \in 1..Len(parts) |-> Lower(parts[i])]
    IN  lowered(path_parts(p))

\* p is an absolute path that begins with the directory host, letter case
\* apart
BeginsWithHost(p, host) ==
    LET prefix(a, b) == Len(b) <= Len(a) /\ SubSeq(a, 1, Len(b)) = b
    IN  is_absolute(p) /\ prefix(LowerParts(p), LowerParts(host))

\* what follows the host directory in p, joined with forward slashes
Remainder(p, host) ==
    LET rest(a, b) == JoinSlash(SubSeq(a, Len(b) + 1, Len(a)))
    IN  rest(path_parts(p), path_parts(host))

\* out is the translation of tok that the rule prescribes
TokenTranslated(tok, out, host) ==
    IF BeginsWithHost(PathPart(tok), host)
    THEN IF Remainder(PathPart(tok), host) = <<>>
         THEN out # tok
         ELSE out = KeyPart(tok) \o DOCKER_CONTAINER_WORKDIR \o <<"/">>
                    \o Remainder(PathPart(tok), host)
    ELSE out = tok

\* the list _convert_paths_to_container made of the vector handed to execute
Converted ==
    convert_paths_to_container(command_args, absolute(working_directory),
                               DOCKER_CONTAINER_WORKDIR)

\* C15: path translation rewrites a token (the value of "key=value",
\* otherwise the whole token) if and only if it is an absolute path that
\* begins, letter case apart, with the host working directory, and the
\* rewritten token is the "key=" part, the container root, "/" and the
\* remainder joined with forward slashes.
C15_RewritesExactlyUnderHost ==
    (pc = "done" /\ USE_DOCKER /\ Converted.raised = "none") =>
        \A i \in 1..Len(command_args) :
            TokenTranslated(command_args[i], Converted.value[i], absolute(working_directory))

\* C16: path translation never fails: for every token list and host
\* working directory _convert_paths_to_container returns a list in which each
\* token is rewritten under the container root or kept as it was; no error
\* reaches the caller.
C16_TranslationNeverFails ==
    (pc = "done" /\ USE_DOCKER) =>
        /\ Converted.raised = "none"
        /\ Len(Converted.value) = Len(command_args)
        /\ \A i \in 1..Len(command_args) :
              \/ Converted.value[i] = command_args[i]
              \/ StartsWith(Converted.value[i],
                            KeyPart(command_args[i]) \o DOCKER_CONTAINER_WORKDIR \o <<"/">>)

----------------------------------------------------------------------------
(* Properties of the vector built from a request                           *)

\* the position of the command selector in a built vector
SelectorIndex == IF USE_DOCKER THEN 1 ELSE 2

\* the tokens that follow the command selector
AfterSelector == SubSeq(command_args, SelectorIndex + 1, Len(command_args))

\* "--<key>=<value>" for the entries of the mapping that satisfy Keep, in
\* mapping order
TokensOfEntries(mapping, Keep(_)) ==
    LET tokens(kept) ==
            [i \in 1..Len(kept) |-> <<"-","-">> \o kept[i][1] \o <<"=">> \o kept[i][2]]
    IN  tokens(SelectSeq(mapping, Keep))

\* "--<flag>" for the Registry-valid members of the list, in list order
TokensOfFlags(flag_list) ==
    LET InRegistry(f) == f \in VALID_FLAGS
        tokens(kept) == [i \in 1..Len(kept) |-> <<"-","-">> \o kept[i]]
    IN  tokens(SelectSeq(flag_list, InRegistry))

HasValidKey(pair) == pair[1] \in VALID_ARGUMENTS

HasValidKeyAndValue(pair) == pair[1] \in VALID_ARGUMENTS /\ pair[2] # <<>>

\* C17 as stated: after the selector the vector holds one "--<key>=<value>"
\* token for every entry whose key is Registry-valid, then one "--<flag>"
\* token for every Registry-valid flag, and nothing for unknown keys or flags.
C17_DropsExactlyUnrecognized ==
    pc \in {"validate", "done"} =>
        AfterSelector = TokensOfEntries(arguments, HasValidKey) \o TokensOfFlags(flags)

\* C17 amended: the entries kept are those whose key is Registry-valid and
\* whose value is not empty; the rest of the statement is unchanged.
C17_DropsUnrecognizedAndEmpty ==
    pc \in {"validate", "done"} =>
        AfterSelector = TokensOfEntries(arguments, HasValidKeyAndValue) \o TokensOfFlags(flags)

\* a vector built from a mapping with an unknown key and a Registry key
\* with an empty value, and from a list with an unknown flag and a Registry
\* flag: only the Registry flag is left
C17_Witness ==
    /\ pc = "done"
    /\ \E i \in 1..Len(arguments) : arguments[i][1] \notin VALID_ARGUMENTS
    /\ \E i \in 1..Len(arguments) : HasValidKey(arguments[i]) /\ arguments[i][2] = <<>>
    /\ \E i \in 1..Len(flags) : flags[i] \notin VALID_FLAGS
    /\ \E i \in 1..Len(flags) : flags[i] \in VALID_FLAGS
    /\ Len(AfterSelector) = 1

\* C18: the built vector starts with the absolute path of the program binary
\* followed by the "--command=<Name>" selector in Local configuration, and
\* with the selector, the binary path occurring nowhere, in Containerized
\* configuration.
C18_BinaryPathOnlyWhenLocal ==
    pc \in {"validate", "done"} =>
        IF USE_DOCKER
        THEN /\ command_args[1] = CMD_BASE \o command
             /\ \A i \in 1..Len(command_args) : command_args[i] # PDBENGINE_BINARY_PATH
        ELSE /\ Len(command_args) >= 2
             /\ command_args[1] = PDBENGINE_BINARY_PATH
             /\ is_absolute(command_args[1])
             /\ command_args[2] = CMD_BASE \o command

\* a vector built with arguments in Local configuration: the binary path,
\* the selector, the tokens
C18_Witness ==
    /\ pc = "done"
    /\ ~USE_DOCKER
    /\ Len(command_args) >= 3
    /\ command_args[1] = PDBENGINE_BINARY_PATH
    /\ command_args[2] = CMD_BASE \o command

----------------------------------------------------------------------------
(* Properties of requests in flight                                        *)

\* C19: the number of external programs (local children or containers)
\* running at the same time never exceeds MAX_CONCURRENT_TASKS.
C19_RunningWithinMaximum ==
    Cardinality(running) <= MAX_CONCURRENT_TASKS

InFlight(r) == jobs[r].pc \in {"reading", "built", "executing", "responded"}

\* C20: no two executions in flight share a working directory: the
\* workspace of a request differs from that of every other request not yet
\* cleaned up, and the directory a program runs in, or has mounted, is the
\* workspace of its own request.
C20_WorkspacesExclusive ==
    pc = "serving" =>
        /\ \A r, q \in Requests :
              (r # q /\ InFlight(r) /\ InFlight(q)) => jobs[r].job_path # jobs[q].job_path
        /\ \A p, q \in running : p # q => p.dir # q.dir
        /\ \A p \in running : p.dir = jobs[p.job].job_path

\* two programs alive at once, a container that outlived its client and the
\* program of a later request, each in the workspace of its own request
C20_Witness ==
    /\ pc = "serving"
    /\ \E p, q \in running :
          /\ p.job # q.job
          /\ jobs[p.job].pc = "responded"
          /\ jobs[q.job].pc = "executing"
          /\ p.dir = jobs[p.job].job_path
          /\ q.dir = jobs[q.job].job_path
          /\ p.dir # q.dir

----------------------------------------------------------------------------
(* Properties of the workspace lifecycle                                   *)

\* the paths handed to cleanup_path as background tasks
Scheduled == {background_tasks[i] : i \in 1..Len(background_tasks)}

\* C21: when a handler answers, on whatever path, the workspace it created
\* is among the scheduled cleanup tasks, and after a success the archive is
\* too; before the answer nothing the request created has been removed.
C21_WorkspaceAlwaysScheduled ==
    /\ pc \in Answered =>
          /\ working_directory # <<>> => working_directory \in Scheduled
          /\ pc = "http_200" => (zip_path # <<>> /\ zip_path \in Scheduled)
    /\ pc \in {"generic_service", "design_service", "archive"} =>
          path_exists(files, working_directory)

\* the entry the path of the call names, if any
Named == {e \in files : e.path = located(Head(background_tasks))}

----------------------------------------------------------------------------
(* Properties of the pipeline of a request                                 *)

\* the argument tokens of the vector a request led to, the binary path of
\* the Local strategy left out
ArgvTokens ==
    IF command_args # <<>> /\ command_args[1] = PDBENGINE_BINARY_PATH
    THEN Tail(command_args) ELSE command_args

\* the vector a request led to has a dangerous or malformed argument
FailsValidation ==
    ArgvTokens # <<>> /\ validate_command_structure(ArgvTokens) # "True"

\* C23: a request that fails validation (JSON, command name, upload, or a
\* dangerous or malformed argument) never has a vector handed to an
\* executor, and when it is answered either no workspace was created for it
\* or the workspace is scheduled for removal.
C23_RejectedStartsNothing ==
    /\ (FailsValidation \/ pc \in {"http_400", "http_413"}) => executed = <<>>
    /\ (pc \in Answered /\ (FailsValidation \/ pc \in {"http_400", "http_413"})) =>
          (working_directory = <<>> \/ working_directory \in Scheduled)

----------------------------------------------------------------------------
(* Properties of the stderr surfaced to a caller                           *)

\* the stderr text within what was surfaced: the detail without the words
\* the handler puts in front, the entry of details as it is
SurfacedStderr ==
    IF raised = "HTTPException"
    THEN Drop(detail[1], Len(IF route = "execute" THEN str_command_failed
                             ELSE str_design_failed))
    ELSE detail[1]

\* C24: the stderr of a failed execution surfaced to a caller, in the
\* detail of an HTTP error or in the details of an exception, is at most
\* 1000 characters long.
C24_SurfacedStderrCapped ==
    (pc = "surfaced" /\ result[1].stderr # <<>> /\ detail # <<>>) =>
        Len(SurfacedStderr) <= 1000

----------------------------------------------------------------------------
(* Properties of the preprocessing of the input file                       *)

\* C25: validate_and_clean never propagates an error and never overwrites
\* its input: for every input path it returns that same path, or the path
\* '<stem>_cleaned.pdb' in the same directory, which names another file.
C25_NeverRaisesNeverOverwrites ==
    pc = "cleaned" =>
        /\ processed.raised = "none"
        /\ \/ processed.value = original_path
           \/ /\ processed.value = cleaned_path(original_path)
              /\ path_parent(processed.value) = path_parent(original_path)
              /\ located(absolute(processed.value)) # located(absolute(original_path))

----------------------------------------------------------------------------
(* Properties of the order of the checks of the validator                  *)

\* the outcome of every check of a non-empty vector, in the order element-0
\* selector shape, command name, dangerous pattern of elements 0..n, then
\* structure (and 'pdb' path) of elements 1..n
OrderedChecks(args) ==
    <<IF StartsWith(args[1], CMD_BASE) THEN "ok" ELSE ErrFirstArg,
      IF is_valid_command(Replace(args[1], CMD_BASE, <<>>)) THEN "ok" ELSE ErrInvalidCommand>>
    \o [i \in 1..Len(args) |-> validate_argument_safety(args[i])]
    \o [i \in 1..(Len(args) - 1) |-> validate_one_argument(args[i + 1])]

\* the first check of the sequence that fails, "True" when none does
FirstFailure(checks) ==
    IF \A i \in 1..Len(checks) : checks[i] = "ok" THEN "True"
    ELSE checks[CHOOSE i \in 1..Len(checks) :
                    /\ checks[i] # "ok"
                    /\ \A j \in 1..(i - 1) : checks[j] = "ok"]

FirstViolation(args) ==
    IF args = <<>> THEN ErrEmpty ELSE FirstFailure(OrderedChecks(args))

SecurityErrors ==
    {ErrEmpty, ErrFirstArg, ErrInvalidCommand, ErrDangerous, ErrUnknownArgument,
     ErrUnknownFlag, ErrMalformed, ErrTraversal, ErrExtension, ErrTooLong, ErrNullByte}

\* C26: validate_command_structure ends by returning True or by raising one
\* SecurityError, which is the first violation met in the order empty vector,
\* element-0 selector shape, command name, dangerous pattern over elements
\* 0..n, structure and 'pdb' path of elements 1..n; the vector and every
\* other part of the state are the same after the call as before it.
C26_FailFastInOrder ==
    /\ [](pc = "done" => /\ verdict \in {"True"} \cup SecurityErrors
                         /\ verdict = FirstViolation(command_args))
    /\ [][/\ command_args' = command_args
          /\ UNCHANGED <<filenameVars, USE_DOCKER, requestVars, executorVars, routeVars,
                         poolVars, cleanupVars, detail, cleanerVars,
                         containerVars>>]_vars

\* two structurally wrong elements with different violations after a Registry
\* selector, nothing dangerous: the violation of the earlier element is raised
C26_Witness ==
    /\ pc = "done"
    /\ Len(command_args) = 3
    /\ NamesRegistryCommand(command_args[1])
    /\ ~HasDangerous(command_args)
    /\ validate_one_argument(command_args[2]) # "ok"
    /\ validate_one_argument(command_args[3]) \notin {"ok", validate_one_argument(command_args[2])}
    /\ verdict = validate_one_argument(command_args[2])

----------------------------------------------------------------------------
(* Properties of the docker command and of the translation of its tokens   *)

\* the list _convert_paths_to_container makes of the vector, whatever the
\* step under way
TranslatedTokens ==
    convert_paths_to_container(command_args, absolute(working_directory),
                               DOCKER_CONTAINER_WORKDIR).value

\* C27: the list _build_docker_command returns is exactly 'docker', 'run',
\* '--rm', '-v', '<host working directory>:<container working directory>',
\* '-w', '<container working directory>', the image, followed by the
\* translated tokens of the vector in their order; the tokens of the caller
\* come after the image and nowhere among the eight elements before them.
C27_DockerCommandShape ==
    (pc = "built" /\ docker_command.raised = "none") =>
        /\ Len(docker_command.value) = 8 + Len(command_args)
        /\ SubSeq(docker_command.value, 1, 8)
               = << <<"d","o","c","k","e","r">>, <<"r","u","n">>, <<"-","-","r","m">>,
                    <<"-","v">>,
                    absolute(working_directory) \o <<":">> \o DOCKER_CONTAINER_WORKDIR,
                    <<"-","w">>, DOCKER_CONTAINER_WORKDIR, DOCKER_IMAGE >>
        /\ \A i \in 1..Len(command_args) :
              docker_command.value[8 + i] = TranslatedTokens[i]

\* a command built from a vector of three tokens, one of them rewritten
C27_Witness ==
    /\ pc = "built"
    /\ docker_command.raised = "none"
    /\ Len(command_args) = 3
    /\ docker_command.value[9] = command_args[1]
    /\ \E i \in 2..3 : docker_command.value[8 + i] # command_args[i]

\* p is an absolute path whose components begin with those of the directory
UnderDirectory(p, dir) ==
    LET prefix(a, b) == Len(b) <= Len(a) /\ SubSeq(a, 1, Len(b)) = b
    IN  is_absolute(p) /\ prefix(path_parts(p), path_parts(dir))

----------------------------------------------------------------------------
(* Properties of the vector handed to a backend                            *)

\* C29: on every path of a request, the vector handed to the Containerized
\* backend (USE_DOCKER set) has no element that is the host binary path, and
\* the vector handed to the Local backend (USE_DOCKER not set) has the
\* binary path as element 0.
C29_BuilderAgreesWithBackend ==
    executed # <<>> =>
        IF USE_DOCKER
        THEN \A i \in 1..Len(executed[1]) : executed[1][i] # PDBENGINE_BINARY_PATH
        ELSE executed[1] # <<>> /\ executed[1][1] = PDBENGINE_BINARY_PATH

----------------------------------------------------------------------------
(* Properties of the place of an uploaded file                             *)

\* C30: the file written for an upload lies inside the workspace created for
\* its request, whatever name the client gave it, and the 'pdb' argument
\* passed on to the builder names a file inside that workspace.
C30_UploadInsideWorkspace ==
    /\ (pc \in {"generic_service", "design_service"}) =>
           \A e \in files : e.kind = "file" => lies_in(e.path, working_directory)
    /\ (pc = "generic_service" /\ input_filename # <<>>) =>
           /\ dict_has(arguments, key_pdb)
           /\ lies_in(located(dict_get(arguments, key_pdb)), working_directory)
    /\ (route = "protein_design" /\ Len(command_args) >= 2) =>
           \E i \in 1..Len(command_args) :
               /\ KeyPart(command_args[i]) = PDB
               /\ lies_in(located(PathPart(command_args[i])), working_directory)

====
